---- MODULE Spec2Model ----
(***************************************************************************)
(* Model of the multi-turn triage orchestrator (src/utils.py,              *)
(* run_triage_agent), its tool registry (execute_function_call and         *)
(* src/tools.py) and the JSON extraction / repair helpers it relies on.    *)
(*                                                                         *)
(* Text is modelled as a sequence of atoms.  The structural characters the *)
(* code inspects one by one (braces, brackets, quote, backslash, comma,    *)
(* colon, newline, blank) are atoms of their own; a run of other           *)
(* characters that the code never looks into (a word, a number, the fence  *)
(* marker) is one atom.                                                    *)
(***************************************************************************)
EXTENDS Integers, Sequences, FiniteSets, TLC

\* ------------------------------------------------------------------------
\* Atoms of text
\* ------------------------------------------------------------------------
QUOTE == "\""
BACKSLASH == "\\"
NL == "\n"
SP == " "
\* the markdown code-fence marker (three backticks)
FENCE == "<fence>"
LBRACE == "{"
RBRACE == "}"
LBRACKET == "["
RBRACKET == "]"
COMMA == ","
COLON == ":"

Whitespace == {SP, NL}
IsNumber(a) == a \in {"0", "1", "2", "12", "30"}
IsLiteral(a) == a \in {"null", "true", "false"}
\* the atoms whose first character may follow a backslash in a JSON string
EscapeOk(a) == a \in {QUOTE, BACKSLASH, "n", "null", "true", "false", "triage_urgency"}

\* ------------------------------------------------------------------------
\* Python str helpers, on atom sequences (indices are 1-based; 0 is "not
\* found", where Python gives -1)
\* ------------------------------------------------------------------------
Drop(s, n) == SubSeq(s, n + 1, Len(s))
Take(s, n) == SubSeq(s, 1, n)

StartsWith(s, p) == Len(s) >= Len(p) /\ Take(s, Len(p)) = p
EndsWith(s, p) == Len(s) >= Len(p) /\ Drop(s, Len(s) - Len(p)) = p

RECURSIVE LStrip(_)
LStrip(s) == IF s # <<>> /\ Head(s) \in Whitespace THEN LStrip(Tail(s)) ELSE s

RECURSIVE RStrip(_)
RStrip(s) ==
    IF s # <<>> /\ s[Len(s)] \in Whitespace THEN RStrip(Take(s, Len(s) - 1)) ELSE s

Strip(s) == LStrip(RStrip(s))

RECURSIVE RStripChar(_, _)
RStripChar(s, c) ==
    IF s # <<>> /\ s[Len(s)] = c THEN RStripChar(Take(s, Len(s) - 1), c) ELSE s

Find(s, c) ==
    IF \E i \in 1..Len(s) : s[i] = c
    THEN CHOOSE i \in 1..Len(s) : s[i] = c /\ \A j \in 1..(i - 1) : s[j] # c
    ELSE 0

RFind(s, c) ==
    IF \E i \in 1..Len(s) : s[i] = c
    THEN CHOOSE i \in 1..Len(s) : s[i] = c /\ \A j \in (i + 1)..Len(s) : s[j] # c
    ELSE 0

Count(s, c) == Cardinality({i \in 1..Len(s) : s[i] = c})
Contains(s, c) == \E i \in 1..Len(s) : s[i] = c

RECURSIVE Repeat(_, _)
Repeat(c, n) == IF n <= 0 THEN <<>> ELSE <<c>> \o Repeat(c, n - 1)

\* str.split('\n'): the lines of s, always at least one
RECURSIVE SplitLines(_)
SplitLines(s) ==
    LET i == Find(s, NL)
    IN IF i = 0 THEN <<s>> ELSE <<Take(s, i - 1)>> \o SplitLines(Drop(s, i))

\* '\n'.join(lines)
RECURSIVE JoinLines(_)
JoinLines(lines) ==
    IF lines = <<>> THEN <<>>
    ELSE IF Len(lines) = 1 THEN lines[1]
    ELSE lines[1] \o <<NL>> \o JoinLines(Tail(lines))

\* ------------------------------------------------------------------------
\* json.loads: a one-pass recogniser of JSON over atoms.  The result keeps
\* what the callers use: whether the text parsed, the kind of the top-level
\* value, the keys of a top-level object, the value of its "triage_urgency"
\* key, and the whole value in canonical form (the text without insignificant
\* whitespace).
\* ------------------------------------------------------------------------
\* report.get("triage_urgency"): the kind of the value and, for a string, a
\* number or a literal, its text
NoUrgencyValue == [kind |-> "none", text |-> <<>>]
UrgencyValue(kind, text) == [kind |-> kind, text |-> text]

ScanInit ==
    [ok |-> TRUE, stack |-> <<>>, exp |-> "value", instr |-> FALSE, esc |-> FALSE,
     iskey |-> FALSE, cur |-> <<>>, keys |-> {}, kind |-> "none", canon |-> <<>>,
     pending |-> FALSE, urgency |-> NoUrgencyValue]

\* the value that follows the top-level key "triage_urgency"
SetUrgency(st, kind, text) ==
    IF st.pending
    THEN [st EXCEPT !.urgency = UrgencyValue(kind, text), !.pending = FALSE]
    ELSE st

AfterValue(st) ==
    [st EXCEPT !.exp = IF st.stack = <<>> THEN "end" ELSE "comma_or_close"]

Pop(st) == [st EXCEPT !.stack = Take(st.stack, Len(st.stack) - 1)]
Push(st, c) == [st EXCEPT !.stack = Append(st.stack, c)]
Top(st) == IF st.stack = <<>> THEN "none" ELSE st.stack[Len(st.stack)]
Fail(st) == [st EXCEPT !.ok = FALSE]
SetKind(st, k) == IF st.stack = <<>> THEN [st EXCEPT !.kind = k] ELSE st

ScanInString(st, a) ==
    LET st1 == [st EXCEPT !.canon = Append(st.canon, a)]
    IN IF st.esc
       THEN IF EscapeOk(a)
            THEN [st1 EXCEPT !.esc = FALSE, !.cur = Append(st.cur, a)]
            ELSE Fail(st)
       ELSE IF a = BACKSLASH THEN [st1 EXCEPT !.esc = TRUE, !.cur = Append(st.cur, a)]
       ELSE IF a = NL THEN Fail(st)
       ELSE IF a = QUOTE
            THEN IF st.iskey
                 THEN [st1 EXCEPT !.instr = FALSE, !.exp = "colon",
                                  !.keys = IF Len(st.stack) = 1
                                           THEN st.keys \cup {st.cur} ELSE st.keys,
                                  !.pending = Len(st.stack) = 1
                                              /\ st.cur = <<"triage_urgency">>]
                 ELSE AfterValue(SetUrgency([st1 EXCEPT !.instr = FALSE], "str", st.cur))
       ELSE [st1 EXCEPT !.cur = Append(st.cur, a)]

ScanValueStart(st, a) ==
    LET st1 == [st EXCEPT !.canon = Append(st.canon, a)]
    IN IF a = LBRACE
       THEN [Push(SetKind(SetUrgency(st1, "obj", <<>>), "obj"), LBRACE)
                 EXCEPT !.exp = "key_or_close"]
       ELSE IF a = LBRACKET
            THEN [Push(SetKind(SetUrgency(st1, "arr", <<>>), "arr"), LBRACKET)
                      EXCEPT !.exp = "value_or_close"]
       ELSE IF a = QUOTE
            THEN [SetKind(st1, "str") EXCEPT !.instr = TRUE, !.iskey = FALSE, !.cur = <<>>]
       ELSE IF IsNumber(a) THEN AfterValue(SetKind(SetUrgency(st1, "num", <<a>>), "num"))
       ELSE IF IsLiteral(a) THEN AfterValue(SetKind(SetUrgency(st1, "lit", <<a>>), "lit"))
       ELSE IF a = RBRACKET /\ st.exp = "value_or_close" THEN AfterValue(Pop(st1))
       ELSE Fail(st)

ScanOutside(st, a) ==
    LET st1 == [st EXCEPT !.canon = Append(st.canon, a)]
    IN IF a \in Whitespace THEN st
       ELSE IF st.exp \in {"value", "value_or_close"} THEN ScanValueStart(st, a)
       ELSE IF st.exp \in {"key", "key_or_close"}
            THEN IF a = QUOTE
                 THEN [st1 EXCEPT !.instr = TRUE, !.iskey = TRUE, !.cur = <<>>]
                 ELSE IF a = RBRACE /\ st.exp = "key_or_close" THEN AfterValue(Pop(st1))
                 ELSE Fail(st)
       ELSE IF st.exp = "colon"
            THEN IF a = COLON THEN [st1 EXCEPT !.exp = "value"] ELSE Fail(st)
       ELSE IF st.exp = "comma_or_close"
            THEN IF a = COMMA
                 THEN [st1 EXCEPT !.exp = IF Top(st) = LBRACE THEN "key" ELSE "value"]
                 ELSE IF (a = RBRACE /\ Top(st) = LBRACE) \/ (a = RBRACKET /\ Top(st) = LBRACKET)
                      THEN AfterValue(Pop(st1))
                 ELSE Fail(st)
       ELSE Fail(st)

ScanStep(st, a) ==
    IF ~st.ok THEN st
    ELSE IF st.instr THEN ScanInString(st, a)
    ELSE ScanOutside(st, a)

\* the scan stops at the first atom that cannot continue a JSON text
RECURSIVE Scan(_, _, _)
ScanOn(s, i, st) == IF st.ok THEN Scan(s, i, st) ELSE st
Scan(s, i, st) == IF i > Len(s) THEN st ELSE ScanOn(s, i + 1, ScanStep(st, s[i]))

NoParse ==
    [ok |-> FALSE, kind |-> "none", keys |-> {}, canon |-> <<>>, urgency |-> NoUrgencyValue]

ScanResult(st) ==
    IF st.ok /\ st.exp = "end" /\ ~st.instr
    THEN [ok |-> TRUE, kind |-> st.kind, keys |-> st.keys, canon |-> st.canon,
          urgency |-> st.urgency]
    ELSE NoParse

\* json.loads(s): ok = FALSE stands for json.JSONDecodeError
JsonLoads(s) == ScanResult(Scan(s, 1, ScanInit))

\* isinstance(report, dict) and "triage_urgency" in report
HasUrgency(p) == p.ok /\ p.kind = "obj" /\ <<"triage_urgency">> \in p.keys

\* Python truthiness of a parsed value, as `if report and isinstance(report, dict)` uses it
TruthyDict(p) == p.ok /\ p.kind = "obj" /\ p.keys # {}

\* ------------------------------------------------------------------------
\* _repair_json (src/utils.py)
\* ------------------------------------------------------------------------
\* The brace-matching loop: from the first "{", count braces outside string
\* literals until the count returns to 0.  end stays 0 unless the loop breaks.
BraceScanStep(st, a, i) ==
    IF st.done THEN st
    ELSE IF st.esc THEN [st EXCEPT !.esc = FALSE]
    ELSE IF a = BACKSLASH THEN [st EXCEPT !.esc = TRUE]
    ELSE IF a = QUOTE THEN [st EXCEPT !.instr = ~st.instr]
    ELSE IF st.instr THEN st
    ELSE IF a = LBRACE THEN [st EXCEPT !.bc = st.bc + 1]
    ELSE IF a = RBRACE
         THEN IF st.bc - 1 = 0
              THEN [st EXCEPT !.bc = 0, !.done = TRUE, !.end = i]
              ELSE [st EXCEPT !.bc = st.bc - 1]
    ELSE st

\* the loop breaks at the closing brace that brings brace_count to 0
RECURSIVE BraceScan(_, _, _)
BraceScanOn(s, i, st) == IF st.done THEN st ELSE BraceScan(s, i, st)
BraceScan(s, i, st) ==
    IF i > Len(s) THEN st ELSE BraceScanOn(s, i + 1, BraceScanStep(st, s[i], i))

ClosedBy(s, st) == IF st.bc > 0 THEN Take(s, st.end) \o Repeat(RBRACE, st.bc) ELSE s

BraceScanFrom(s, start) ==
    BraceScan(s, start,
              [bc |-> 0, instr |-> FALSE, esc |-> FALSE, done |-> FALSE, end |-> start])

\* json_text after the "missing closing braces" step
CloseBraces(s) == ClosedBy(s, BraceScanFrom(s, Find(s, LBRACE)))

\* string state at the end of a line, entered in state q = [instr, esc]
RECURSIVE LineState(_, _, _)
LineState(line, i, q) ==
    IF i > Len(line) THEN q
    ELSE IF q.esc THEN LineState(line, i + 1, [q EXCEPT !.esc = FALSE])
    ELSE IF line[i] = BACKSLASH THEN LineState(line, i + 1, [q EXCEPT !.esc = TRUE])
    ELSE IF line[i] = QUOTE THEN LineState(line, i + 1, [q EXCEPT !.instr = ~q.instr])
    ELSE LineState(line, i + 1, q)

\* "If we're still in a string at the end of the line, close it"
NeedsClosing(line, q) ==
    q.instr /\ Strip(line) # <<>> /\ ~EndsWith(RStrip(line), <<QUOTE>>)

ClosedLine(line) ==
    IF EndsWith(RStrip(line), <<COMMA>>)
    THEN RStripChar(RStrip(line), COMMA) \o <<QUOTE, COMMA>>
    ELSE line \o <<QUOTE>>

CloseLine(line, q, acc) ==
    IF NeedsClosing(line, q)
    THEN [q |-> [q EXCEPT !.instr = FALSE], out |-> Append(acc.out, ClosedLine(line))]
    ELSE [q |-> q, out |-> Append(acc.out, line)]

\* the per-line loop closing strings still open at the end of a line
RECURSIVE CloseLines(_, _, _)
CloseLines(lines, k, acc) ==
    IF k > Len(lines) THEN acc
    ELSE CloseLines(lines, k + 1, CloseLine(lines[k], LineState(lines[k], 1, acc.q), acc))

NoText == <<"<none>">>

\* the repaired text returned without the validation
IfParsesUnchecked(t) == t

\* "Validate it's parseable": the text if json.loads accepts it, else None
IfParses(t) == IF JsonLoads(t).ok THEN t ELSE NoText

\* '\n'.join(repaired_lines), plus a quote "if still in string at the end"
RepairedText(r) == JoinLines(r.out) \o (IF r.q.instr THEN <<QUOTE>> ELSE <<>>)

\* _repair_json(json_text): the repaired text, or NoText for None
RepairJson(s) ==
    IF s = NoText \/ s = <<>> \/ Strip(s) = <<>> THEN NoText
    ELSE IF Find(s, LBRACE) = 0 THEN NoText
    ELSE IfParses(RepairedText(
             CloseLines(SplitLines(CloseBraces(s)), 1,
                        [q |-> [instr |-> FALSE, esc |-> FALSE], out |-> <<>>])))

\* ------------------------------------------------------------------------
\* _repair_json_aggressive (src/utils.py)
\* ------------------------------------------------------------------------
\* unescaped quotes of one line
RECURSIVE QuoteCount(_, _, _)
QuoteCount(line, i, esc) ==
    IF i > Len(line) THEN 0
    ELSE IF esc THEN QuoteCount(line, i + 1, FALSE)
    ELSE IF line[i] = BACKSLASH THEN QuoteCount(line, i + 1, TRUE)
    ELSE (IF line[i] = QUOTE THEN 1 ELSE 0) + QuoteCount(line, i + 1, FALSE)

\* "odd number of quotes and line doesn't end with quote"
OddLine(line) ==
    QuoteCount(line, 1, FALSE) % 2 = 1 /\ ~EndsWith(RStrip(line), <<QUOTE>>)

\* "Unterminated string value - close it"
CloseValue(line, colon_idx, value_part) ==
    IF StartsWith(value_part, <<QUOTE>>) /\ ~EndsWith(value_part, <<QUOTE>>)
    THEN Take(line, colon_idx) \o <<SP, QUOTE>>
         \o RStripChar(RStrip(Tail(value_part)), COMMA) \o <<QUOTE, COMMA>>
    ELSE line

CloseValueAt(line, colon_idx) == CloseValue(line, colon_idx, Strip(Drop(line, colon_idx)))

AggressiveLine(line) ==
    IF ~OddLine(line) THEN line
    ELSE IF EndsWith(Strip(line), <<COMMA>>)
         THEN RStripChar(RStrip(line), COMMA) \o <<QUOTE, COMMA>>
    ELSE IF Contains(line, COLON) /\ ~EndsWith(Strip(line), <<QUOTE>>)
         THEN CloseValueAt(line, Find(line, COLON))
    ELSE line

\* "Try to close any unclosed braces/brackets"
Balance(repaired, open_braces, open_brackets) ==
    repaired
    \o (IF open_braces > 0 THEN <<NL>> \o Repeat(RBRACE, open_braces) ELSE <<>>)
    \o (IF open_brackets > 0 THEN Repeat(RBRACKET, open_brackets) ELSE <<>>)

Rebalanced(repaired) ==
    Balance(repaired, Count(repaired, LBRACE) - Count(repaired, RBRACE),
            Count(repaired, LBRACKET) - Count(repaired, RBRACKET))

AggressiveLines(lines) ==
    IF \E k \in 1..Len(lines) : OddLine(lines[k])
    THEN IfParses(Rebalanced(JoinLines([k \in 1..Len(lines) |-> AggressiveLine(lines[k])])))
    ELSE NoText

\* _repair_json_aggressive(json_text): the repaired text, or NoText for None
RepairJsonAggressive(s) ==
    IF s = NoText \/ s = <<>> \/ Strip(s) = <<>> THEN NoText
    ELSE IF Find(s, LBRACE) = 0 THEN NoText
    ELSE AggressiveLines(SplitLines(s))

\* ------------------------------------------------------------------------
\* Tool registry (src/tools.py, execute_function_call)
\* ------------------------------------------------------------------------
NoValue == [type |-> "none", risk_score |-> 0, score_category |-> "", png |-> <<>>]

\* the scoring with "High Risk" only above 20
calculate_sepsis_risk_above(args) ==
    LET score == (args.heart_rate \div 10) + (args.respiratory_rate \div 5)
                 + ((args.lactate_level * 3) \div 10)
    IN [type |-> "sepsis", risk_score |-> score,
        score_category |-> IF score > 20 THEN "High Risk" ELSE "Low Risk", png |-> <<>>]

\* the scoring with a point for a systolic pressure below 100
calculate_sepsis_risk_with_pressure(args) ==
    LET score == (args.heart_rate \div 10) + (args.respiratory_rate \div 5)
                 + ((args.lactate_level * 3) \div 10)
                 + (IF args.blood_pressure < 100 THEN 1 ELSE 0)
    IN [type |-> "sepsis", risk_score |-> score,
        score_category |-> IF score >= 20 THEN "High Risk" ELSE "Low Risk", png |-> <<>>]

\* lactate_level is kept in tenths, so int(lactate_level * 3) is (3 * tenths) \div 10
calculate_sepsis_risk(args) ==
    LET score == (args.heart_rate \div 10) + (args.respiratory_rate \div 5)
                 + ((args.lactate_level * 3) \div 10)
    IN [type |-> "sepsis", risk_score |-> score,
        score_category |-> IF score >= 20 THEN "High Risk" ELSE "Low Risk", png |-> <<>>]

\* the PNG is opaque: it is identified by the series it was plotted from
generate_vitals_visualization(args) ==
    [type |-> "png", risk_score |-> 0, score_category |-> "", png |-> args.time_series_data]

TOOL_CONFIG == <<"calculate_sepsis_risk", "generate_vitals_visualization">>

Signature(name) ==
    IF name = "calculate_sepsis_risk"
    THEN {"heart_rate", "blood_pressure", "lactate_level", "respiratory_rate"}
    ELSE {"time_series_data"}

\* func(**func_args) raises: arguments not matching the signature (TypeError),
\* or generate_vitals_visualization on an empty series (ValueError)
ToolRaises(name, args) ==
    \/ DOMAIN args # Signature(name)
    \/ name = "generate_vitals_visualization" /\ args.time_series_data = <<>>

ToolResult(name, args) ==
    IF name = "calculate_sepsis_risk" THEN calculate_sepsis_risk(args)
    ELSE generate_vitals_visualization(args)

LogEntry(tag, turn, fn, kind, value) ==
    [tag |-> tag, turn |-> turn, fn |-> fn, kind |-> kind, value |-> value]

\* the execution without the try block around the call of the tool: a tool
\* that raises leaves no error part and no [ERROR] entry behind
execute_function_call_unguarded(call) ==
    IF \A k \in 1..Len(TOOL_CONFIG) : TOOL_CONFIG[k] # call.name
    THEN [part |-> [kind |-> "text", name |-> call.name, error |-> "not_found",
                    value |-> NoValue],
          log |-> LogEntry("ERROR", -1, call.name, "not_found", NoValue)]
    ELSE [part |-> [kind |-> "function_response", name |-> call.name,
                    error |-> "none", value |-> NoValue],
          log |-> LogEntry("OBSERVATION", -1, call.name, "executed", NoValue)]

\* execute_function_call(func_name, func_args, tool_logs): the response part
\* and the entry appended to tool_logs
execute_function_call(call) ==
    IF \A k \in 1..Len(TOOL_CONFIG) : TOOL_CONFIG[k] # call.name
    THEN [part |-> [kind |-> "text", name |-> call.name, error |-> "not_found",
                    value |-> NoValue],
          log |-> LogEntry("ERROR", -1, call.name, "not_found", NoValue)]
    ELSE IF ToolRaises(call.name, call.args)
    THEN [part |-> [kind |-> "text", name |-> call.name, error |-> "failed",
                    value |-> NoValue],
          log |-> LogEntry("ERROR", -1, call.name, "failed", NoValue)]
    ELSE LET result == ToolResult(call.name, call.args)
         IN [part |-> [kind |-> "function_response", name |-> call.name,
                       error |-> "none", value |-> result],
             log |-> LogEntry("OBSERVATION", -1, call.name, "executed", result)]

\* the loop without its [OBSERVATION] entries: every call is executed and
\* answered, only the request is logged
ExecuteFunctionsUnobserved(function_calls, k, acc) ==
    [parts |-> [i \in 1..Len(function_calls) |->
                    execute_function_call(function_calls[i]).part],
     logs |-> acc.logs \o [i \in 1..Len(function_calls) |->
                               LogEntry("ACTION", -1, function_calls[i].name,
                                        "requested", NoValue)]]

\* the loop that logs every request before it executes the first call
ExecuteFunctionsRequestsFirst(function_calls, k, acc) ==
    [parts |-> [i \in 1..Len(function_calls) |->
                    execute_function_call(function_calls[i]).part],
     logs |-> acc.logs
              \o [i \in 1..Len(function_calls) |->
                     LogEntry("ACTION", -1, function_calls[i].name, "requested", NoValue)]
              \o [i \in 1..Len(function_calls) |->
                     execute_function_call(function_calls[i]).log]]

\* the loop over function_calls: for each call, in order, the [ACTION] entry,
\* the execution and its log entry; the response parts are collected in order
RECURSIVE ExecuteFunctions(_, _, _)
ExecuteFunctions(function_calls, k, acc) ==
    IF k > Len(function_calls) THEN acc
    ELSE LET call == function_calls[k]
             r == execute_function_call(call)
         IN ExecuteFunctions(function_calls, k + 1,
                [parts |-> Append(acc.parts, r.part),
                 logs |-> acc.logs \o <<LogEntry("ACTION", -1, call.name, "requested", NoValue),
                                        r.log>>])

\* ------------------------------------------------------------------------
\* The model client: what generate_content returns or raises
\* ------------------------------------------------------------------------
MaxCalls == 2

SepsisHigh ==
    [name |-> "calculate_sepsis_risk",
     args |-> [heart_rate |-> 110, blood_pressure |-> 90, lactate_level |-> 48,
               respiratory_rate |-> 26]]
VitalsPlot ==
    [name |-> "generate_vitals_visualization",
     args |-> [time_series_data |-> <<[time |-> 0, SpO2 |-> 98, HeartRate |-> 75],
                                      [time |-> 1, SpO2 |-> 88, HeartRate |-> 110]>>]]
VitalsEmpty ==
    [name |-> "generate_vitals_visualization", args |-> [time_series_data |-> <<>>]]
UnknownTool == [name |-> "order_ct_scan", args |-> [region |-> 1]]
\* arguments that do not match the signature of the tool
SepsisBadArgs ==
    [name |-> "calculate_sepsis_risk", args |-> [heart_rate |-> 110, respiratory_rate |-> 26]]

ToolCalls == <<SepsisHigh, VitalsPlot, UnknownTool, VitalsEmpty, SepsisBadArgs>>

\* the call lists a response may carry: 1..MaxCalls consecutive requests of ToolCalls
Window(i, k) == [j \in 1..k |-> ToolCalls[((i + j - 2) % Len(ToolCalls)) + 1]]
CallLists == {Window(i, k) : i \in 1..Len(ToolCalls), k \in 1..MaxCalls}

Q(w) == <<QUOTE, w, QUOTE>>
ValidReport == <<LBRACE>> \o Q("triage_urgency") \o <<COLON>> \o Q("RED") \o <<RBRACE>>
\* the same report inside a markdown fence
FencedReport == <<FENCE, "json", NL>> \o ValidReport \o <<NL, FENCE>>
\* the same report with prose before and after
ProseReport == <<"x", SP>> \o ValidReport \o <<SP, "x">>
\* a JSON object without the urgency field
NoUrgency == <<LBRACE>> \o Q("x") \o <<COLON, "1", RBRACE>>
\* a report cut off before its closing brace
Truncated == <<LBRACE>> \o Q("triage_urgency") \o <<COLON>> \o Q("RED")
\* a report with one unterminated string followed by a line break
Unterminated ==
    <<LBRACE>> \o Q("triage_urgency") \o <<COLON>> \o Q("RED") \o <<COMMA>> \o Q("x")
    \o <<COLON, LBRACE>> \o Q("x") \o <<COLON, QUOTE, "x", NL>> \o Q("x") \o <<COLON>>
    \o Q("x") \o <<RBRACE, RBRACE>>
\* a report whose urgency is null
NullUrgency == <<LBRACE>> \o Q("triage_urgency") \o <<COLON, "null", RBRACE>>
\* a report whose tool_verification_data carries a risk score of the model's
\* own choosing
ModelChosenData ==
    <<LBRACE>> \o Q("triage_urgency") \o <<COLON>> \o Q("RED") \o <<COMMA>>
    \o Q("tool_verification_data") \o <<COLON, LBRACE>> \o Q("risk_score")
    \o <<COLON, "12", RBRACE, RBRACE>>
\* the report with the closing quote of its urgency missing
UnclosedUrgency == <<LBRACE>> \o Q("triage_urgency") \o <<COLON, QUOTE, "RED", RBRACE>>
PlainProse == <<"x", SP, "x">>
JsonList == <<LBRACKET, "1", RBRACKET>>

Texts == {ValidReport, FencedReport, ProseReport, NoUrgency, Truncated, Unterminated,
          NullUrgency, ModelChosenData, UnclosedUrgency, PlainProse, JsonList, <<SP>>}
\* the text a response may carry next to its function calls
CallTexts == {<<>>, ProseReport, NoUrgency}

Resp(cand, content, calls, text) ==
    [candidates |-> cand, content |-> content, calls |-> calls, text |-> text]
NoResponse == Resp(FALSE, FALSE, <<>>, <<"<no response>">>)

Responses ==
    {Resp(FALSE, FALSE, <<>>, <<>>), Resp(TRUE, FALSE, <<>>, <<>>), Resp(TRUE, TRUE, <<>>, <<>>)}
    \cup {Resp(TRUE, TRUE, <<>>, t) : t \in Texts}
    \cup {Resp(TRUE, TRUE, l, t) : l \in CallLists, t \in CallTexts}

\* str(e).lower() of the sample APIError descriptions
Lower(a) ==
    CASE a = "RESOURCE_EXHAUSTED" -> "resource_exhausted"
      [] a = "Quota" -> "quota"
      [] a = "INTERNAL" -> "internal"
      [] a = "Server" -> "server"
      [] a = "INVALID_ARGUMENT" -> "invalid_argument"
      [] a = "PERMISSION_DENIED" -> "permission_denied"
      [] OTHER -> a

LowerStr(s) == [i \in 1..Len(s) |-> Lower(s[i])]

ErrorDescs ==
    {<<"429", SP, "RESOURCE_EXHAUSTED">>, <<"Quota", SP, "exceeded">>,
     <<"500", SP, "INTERNAL">>, <<"503", SP, "Server", SP, "unavailable">>,
     <<"400", SP, "INVALID_ARGUMENT">>, <<"403", SP, "PERMISSION_DENIED">>}

\* the markers matched against str(e) as it is, without .lower()
is_retryable_case_sensitive(desc) ==
    \/ Contains(desc, "429")
    \/ Contains(desc, "resource_exhausted")
    \/ Contains(desc, "quota")
    \/ Contains(desc, "500")
    \/ Contains(desc, "internal")
    \/ Contains(desc, "server")

\* every APIError taken for a transient one
is_retryable_always(desc) == TRUE

is_retryable(desc) ==
    LET error_str == LowerStr(desc)
    IN \/ Contains(error_str, "429")
       \/ Contains(error_str, "resource_exhausted")
       \/ Contains(error_str, "quota")
       \/ Contains(error_str, "500")
       \/ Contains(error_str, "internal")
       \/ Contains(error_str, "server")

\* ------------------------------------------------------------------------
\* run_triage_agent: configurations and extraction steps (src/utils.py)
\* ------------------------------------------------------------------------
MAX_TURNS == 5
MAX_RETRIES == 5

\* tools=TOOL_CONFIG, no response_mime_type, no response_schema
config_tool_turn == [tools |-> TRUE, response_mime_type |-> FALSE, response_schema |-> FALSE]
\* the JSON configuration with the tools left in
config_json_turn_with_tools ==
    [tools |-> TRUE, response_mime_type |-> TRUE, response_schema |-> TRUE]

\* response_mime_type and response_schema set, no tools
config_json_turn == [tools |-> FALSE, response_mime_type |-> TRUE, response_schema |-> TRUE]

\* the strategy without its first branch: tool results do not force JSON
ChooseConfigIgnoringResults(fra, jca, turn) ==
    IF jca /\ turn >= 2
    THEN [config |-> config_json_turn, function_responses_added |-> fra,
          json_config_attempted |-> jca]
    ELSE [config |-> config_tool_turn, function_responses_added |-> fra,
          json_config_attempted |-> jca]

\* the strategy forcing JSON after tool results only the first time
ChooseConfigJsonOnce(fra, jca, turn) ==
    IF fra /\ ~jca
    THEN [config |-> config_json_turn, function_responses_added |-> FALSE,
          json_config_attempted |-> TRUE]
    ELSE [config |-> config_tool_turn, function_responses_added |-> FALSE,
          json_config_attempted |-> jca]

\* the strategy retrying JSON on every turn after the first attempt
ChooseConfigRetryingJson(fra, jca, turn) ==
    IF fra
    THEN [config |-> config_json_turn, function_responses_added |-> FALSE,
          json_config_attempted |-> TRUE]
    ELSE IF jca
    THEN [config |-> config_json_turn, function_responses_added |-> fra,
          json_config_attempted |-> jca]
    ELSE [config |-> config_tool_turn, function_responses_added |-> fra,
          json_config_attempted |-> jca]

\* the "Dynamic Configuration Strategy" at the head of a turn: the config of
\* the turn and the two flags after it
ChooseConfig(fra, jca, turn) ==
    IF fra
    THEN [config |-> config_json_turn, function_responses_added |-> FALSE,
          json_config_attempted |-> TRUE]
    ELSE IF jca /\ turn >= 2
    THEN [config |-> config_json_turn, function_responses_added |-> fra,
          json_config_attempted |-> jca]
    ELSE [config |-> config_tool_turn, function_responses_added |-> fra,
          json_config_attempted |-> jca]

\* the function calls among the parts of the candidate's content
FunctionCalls(resp) == IF resp.content THEN resp.calls ELSE <<>>

\* _get_raw_json_text(response): the text, NoText for None, or raised (ValueError)
get_raw_json_text(resp) ==
    IF resp.text # <<>> THEN [raised |-> FALSE, text |-> resp.text]
    ELSE IF resp.content /\ resp.calls # <<>> THEN [raised |-> FALSE, text |-> NoText]
    ELSE [raised |-> TRUE, text |-> NoText]

IsText(t) == t # NoText /\ t # <<>>

DropPrefix(t, p) == IF StartsWith(t, p) THEN Drop(t, Len(p)) ELSE t
DropSuffix(t, p) == IF EndsWith(t, p) THEN Take(t, Len(t) - Len(p)) ELSE t
DropPrefixStrip(t, p) == IF StartsWith(t, p) THEN Strip(Drop(t, Len(p))) ELSE t
DropSuffixStrip(t, p) == IF EndsWith(t, p) THEN Strip(Take(t, Len(t) - Len(p))) ELSE t

\* fence removal of the first parse attempt: one strip before, one after
StripFences(raw) ==
    Strip(DropSuffix(DropPrefix(DropPrefix(Strip(raw), <<FENCE, "json">>), <<FENCE>>),
                     <<FENCE>>))

\* fence removal of the later attempts: a strip after every removal
StripFencesClean(raw) ==
    DropSuffixStrip(DropPrefixStrip(DropPrefixStrip(Strip(raw), <<FENCE, "json">>),
                                    <<FENCE>>),
                    <<FENCE>>)

NoReport == NoParse
NotFound == [found |-> FALSE, report |-> NoReport, raw_text |-> NoText, via |-> "none"]
Found(p, t, via) == [found |-> TRUE, report |-> p, raw_text |-> t, via |-> via]

\* isinstance(report, dict) and "triage_urgency" in report
ReportIn(p, t, via) == IF HasUrgency(p) THEN Found(p, t, via) ELSE NotFound

\* "if repaired:" json.loads(repaired), then the urgency check
RepairedReport(repaired, via) ==
    IF repaired = NoText THEN NotFound ELSE ReportIn(JsonLoads(repaired), repaired, via)

OrAggressive(t, repaired) ==
    IF repaired = NoText THEN RepairJsonAggressive(t) ELSE repaired

\* _repair_json, then _repair_json_aggressive when it returned nothing
RepairCascade(t) == OrAggressive(t, RepairJson(t))

ParsedOrRepaired(t, p) ==
    IF p.ok THEN ReportIn(p, t, "parsed")
    ELSE RepairedReport(RepairCascade(t), "repaired")

\* json.loads(t), on JSONDecodeError the repair cascade
ParseOrRepair(t) == ParsedOrRepaired(t, JsonLoads(t))

ParseStripped(json_text) ==
    IF json_text = <<>> THEN NotFound ELSE ParseOrRepair(json_text)

\* "Try to parse as JSON regardless of config"
ParseFirst(raw) ==
    IF ~IsText(raw) \/ Strip(raw) = <<>> THEN NotFound
    ELSE ParseStripped(StripFences(raw))

ParseCleaned(json_text_clean) ==
    IF json_text_clean # <<>>
       /\ (StartsWith(json_text_clean, <<LBRACE>>)
           \/ Contains(json_text_clean, "triage_urgency"))
    THEN ParseOrRepair(json_text_clean)
    ELSE NotFound

\* the second attempt of a tool-config turn, on json_text_clean
ParseClean(raw) == ParseCleaned(StripFencesClean(raw))

\* json_text_clean[start_idx:end_idx+1], NoText when the condition on the
\* indices fails
ObjectSpan(t, start_idx, end_idx) ==
    IF start_idx # 0 /\ end_idx # 0 /\ end_idx > start_idx
    THEN SubSeq(t, start_idx, end_idx)
    ELSE NoText

ObjectText(t) == ObjectSpan(t, Find(t, LBRACE), RFind(t, RBRACE))

\* json_extract = _repair_json(json_extract); if that is empty,
\* _repair_json_aggressive(json_extract) on the empty result
ExtractRepaired(repaired) ==
    RepairedReport(IF repaired = NoText THEN RepairJsonAggressive(repaired) ELSE repaired,
                   "extracted")

ExtractParsed(json_extract, p) ==
    IF p.ok THEN ReportIn(p, json_extract, "extracted")
    ELSE ExtractRepaired(RepairJson(json_extract))

ExtractFrom(json_extract) ==
    IF json_extract = NoText THEN NotFound
    ELSE ExtractParsed(json_extract, JsonLoads(json_extract))

\* "Look for JSON object in the text": first "{" to last "}"
ExtractObject(json_text_clean) == ExtractFrom(ObjectText(json_text_clean))

\* if report and isinstance(report, dict)
TruthyIn(p, t) == IF TruthyDict(p) THEN Found(p, t, "last") ELSE NotFound

LastRepaired(repaired) ==
    IF repaired = NoText THEN NotFound ELSE TruthyIn(JsonLoads(repaired), repaired)

LastParsed(json_extract, p) ==
    IF p.ok THEN TruthyIn(p, json_extract) ELSE LastRepaired(RepairJson(json_extract))

LastFrom(json_extract) ==
    IF json_extract = NoText THEN NotFound
    ELSE LastParsed(json_extract, JsonLoads(json_extract))

LastFromRaw(raw) ==
    IF raw.raised \/ raw.text = NoText THEN NotFound
    ELSE LastFrom(ObjectText(StripFencesClean(raw.text)))

\* the last attempt after the loop, on the last response: first "{" to last
\* "}", _repair_json on a decode error; any non-empty mapping is accepted
LastAttempt(resp) == LastFromRaw(get_raw_json_text(resp))

\* ------------------------------------------------------------------------
\* build_patient_contents: the turn-0 parts (src/utils.py)
\* ------------------------------------------------------------------------
InitialPart(tag) == [role |-> "part", kind |-> tag, parts |-> <<>>]

build_patient_contents(image) ==
    (IF image = "present" THEN <<InitialPart("image")>> ELSE <<>>)
    \o <<InitialPart("notes"), InitialPart("labs"), InitialPart("vitals"),
         InitialPart("instruction")>>

\* the caller's inputs: whether a client could be built, and the uploaded image
RunInputs ==
    {[client |-> TRUE, image |-> "present"], [client |-> TRUE, image |-> "absent"],
     [client |-> TRUE, image |-> "bad_base64"], [client |-> FALSE, image |-> "absent"]}

\* The model client of a run belongs to one of two families.  A "varied"
\* client never fails transiently; its first MaxVariedTurns changes of
\* response are free, and after them a response with function calls can only
\* repeat the previous response.  A "flaky" client fails transiently on the
\* first `flakiness` attempts of every turn (0..MAX_RETRIES of them), and its
\* responses with function calls are all SteadyToolResponse.  Both return any
\* response without function calls, and raise any non-transient error.
MaxVariedTurns == 1
SteadyToolResponse == Resp(TRUE, TRUE, Window(1, MaxCalls), <<>>)
Clients ==
    {[family |-> "varied", flakiness |-> 0]}
    \cup {[family |-> "flaky", flakiness |-> f] : f \in 0..MAX_RETRIES}

\* ------------------------------------------------------------------------
\* Parsed JSON as the Python values that src/app.py handles.  A value is
\* kept as its canonical text; a dict is a function from its keys to the
\* canonical texts of their values.
\* ------------------------------------------------------------------------
None == <<"null">>
EmptyDict == <<>>
Key(w) == <<w>>

\* the index of the quote that closes the string opened at index i
RECURSIVE StringEnd(_, _)
StringEnd(c, i) ==
    IF i + 1 > Len(c) THEN Len(c)
    ELSE IF c[i + 1] = BACKSLASH THEN StringEnd(c, i + 2)
    ELSE IF c[i + 1] = QUOTE THEN i + 1
    ELSE StringEnd(c, i + 1)

\* the index of the brace or bracket that closes the one opened before index
\* i, depth counting the ones open at i
RECURSIVE CloserFrom(_, _, _)
CloserFrom(c, i, depth) ==
    IF i > Len(c) THEN Len(c)
    ELSE IF c[i] = QUOTE THEN CloserFrom(c, StringEnd(c, i) + 1, depth)
    ELSE IF c[i] \in {LBRACE, LBRACKET} THEN CloserFrom(c, i + 1, depth + 1)
    ELSE IF c[i] \in {RBRACE, RBRACKET}
         THEN IF depth = 1 THEN i ELSE CloserFrom(c, i + 1, depth - 1)
    ELSE CloserFrom(c, i + 1, depth)

\* the index of the last atom of the value that starts at index i
ValueEnd(c, i) ==
    IF c[i] = QUOTE THEN StringEnd(c, i)
    ELSE IF c[i] \in {LBRACE, LBRACKET} THEN CloserFrom(c, i + 1, 1)
    ELSE i

\* d[k] = v on the items of a dict in insertion order: a key that is present
\* keeps its place and takes the new value
PutItem(items, k, v) ==
    IF \E n \in 1..Len(items) : items[n].k = k
    THEN [n \in 1..Len(items) |-> IF items[n].k = k THEN [k |-> k, v |-> v] ELSE items[n]]
    ELSE Append(items, [k |-> k, v |-> v])

\* the items of the object text c from index i on, i being at a key or at the
\* closing brace
RECURSIVE OrderedItemsFrom(_, _, _)
OrderedItemsAfter(c, i, k, items) ==
    OrderedItemsFrom(c,
                     ValueEnd(c, k + 2)
                     + (IF ValueEnd(c, k + 2) < Len(c) /\ c[ValueEnd(c, k + 2) + 1] = COMMA
                        THEN 2 ELSE 1),
                     PutItem(items, SubSeq(c, i + 1, k - 1),
                             SubSeq(c, k + 2, ValueEnd(c, k + 2))))
OrderedItemsFrom(c, i, items) ==
    IF i > Len(c) \/ c[i] # QUOTE THEN items
    ELSE OrderedItemsAfter(c, i, StringEnd(c, i), items)

\* the items, in order, of the dict that the canonical object text c stands for
OrderedItems(c) == OrderedItemsFrom(c, 2, <<>>)

\* a dict as the function from its keys to their values
AsDict(items) ==
    [k \in {items[n].k : n \in 1..Len(items)} |->
        items[CHOOSE n \in 1..Len(items) : items[n].k = k].v]
Items(c) == AsDict(OrderedItems(c))

\* {**a, **b} on ordered items
RECURSIVE MergeItems(_, _)
MergeItems(a, b) ==
    IF b = <<>> THEN a ELSE MergeItems(PutItem(a, b[1].k, b[1].v), Tail(b))

\* the canonical text of the dict with the given items
RECURSIVE ItemsText(_)
ItemsText(items) ==
    IF items = <<>> THEN <<>>
    ELSE <<QUOTE>> \o items[1].k \o <<QUOTE, COLON>> \o items[1].v
         \o (IF Len(items) = 1 THEN <<>> ELSE <<COMMA>> \o ItemsText(Tail(items)))
DictText(items) == <<LBRACE>> \o ItemsText(items) \o <<RBRACE>>

IsDict(v) == v # <<>> /\ v[1] = LBRACE
IsStr(v) == v # <<>> /\ v[1] = QUOTE

\* bool(v) of the value with canonical text v
Truthy(v) ==
    v \notin {None, <<"false">>, <<"0">>, <<QUOTE, QUOTE>>, <<LBRACKET, RBRACKET>>,
              <<LBRACE, RBRACE>>}

\* d.get(k) and `k in d`
Get(d, k) == IF k \in DOMAIN d THEN d[k] ELSE None
Has(d, k) == k \in DOMAIN d

\* {**a, **b}, and a.update(b)
Update(a, b) == [k \in DOMAIN a \cup DOMAIN b |-> IF k \in DOMAIN b THEN b[k] ELSE a[k]]

\* {k: v for k, v in d.items() if k != key}
Without(d, key) == [k \in DOMAIN d \ {key} |-> d[k]]

\* ------------------------------------------------------------------------
\* The report of a run as src/app.py holds it: None, or a dict
\* ------------------------------------------------------------------------
NoneReport == [is_none |-> TRUE, items |-> EmptyDict]
DictReport(d) == [is_none |-> FALSE, items |-> d]

\* bool(report)
TruthyReport(r) == ~r.is_none /\ r.items # EmptyDict

\* `v or {}` for the value with canonical text v
OrEmptyDict(v) == IF Truthy(v) THEN v ELSE <<LBRACE, RBRACE>>

RiskScoreKeys == {Key("sepsis_risk"), Key("risk_score"), Key("calculate_sepsis_risk")}

\* has_risk_score: tool_verification_data is a dict with a value that is not
\* None under one of the recognized keys
HasRiskScoreIn(tool_data) ==
    /\ IsDict(tool_data)
    /\ \E k \in RiskScoreKeys : Get(Items(tool_data), k) # None
HasRiskScore(r) ==
    HasRiskScoreIn(OrEmptyDict(Get(r.items, Key("tool_verification_data"))))

\* the condition without the test of differential_diagnosis
NeedsFallbackIgnoringDiagnosis(r) == ~TruthyReport(r) \/ ~HasRiskScore(r)

\* the condition under which main calls _extract_outputs_with_gemini
NeedsFallback(r) ==
    \/ ~TruthyReport(r)
    \/ ~Truthy(Get(r.items, Key("differential_diagnosis")))
    \/ ~HasRiskScore(r)

\* ------------------------------------------------------------------------
\* The parse of a model response in _generate_report_fast and in
\* _extract_outputs_with_gemini (src/utils.py): the same steps in both
\* ------------------------------------------------------------------------
\* "Remove markdown if present": if / elif on the opening fence
FastStripFences(raw) ==
    LET a == Strip(raw)
        b == IF StartsWith(a, <<FENCE, "json">>) THEN Strip(Drop(a, 2))
             ELSE IF StartsWith(a, <<FENCE>>) THEN Strip(Drop(a, 1))
             ELSE a
    IN IF EndsWith(b, <<FENCE>>) THEN Strip(Take(b, Len(b) - 1)) ELSE b

\* "Find JSON object": json_text[start_idx:end_idx+1] when both are found
BraceSlice(t) ==
    IF Find(t, LBRACE) # 0 /\ RFind(t, RBRACE) # 0
    THEN SubSeq(t, Find(t, LBRACE), RFind(t, RBRACE))
    ELSE t

\* json.loads(json_text) and the keys() of the result: failed stands for an
\* exception (no text, JSONDecodeError, AttributeError on a value that is no
\* dict)
ParseFailed == [failed |-> TRUE, report |-> NoneReport, json_text |-> NoText]
ParsedDict(p, json_text) ==
    IF p.ok /\ p.kind = "obj"
    THEN [failed |-> FALSE, report |-> DictReport(Items(p.canon)), json_text |-> json_text]
    ELSE ParseFailed
ParseSlice(json_text) == ParsedDict(JsonLoads(json_text), json_text)
ParseGenerated(text) ==
    IF text = <<>> THEN ParseFailed ELSE ParseSlice(BraceSlice(FastStripFences(text)))

\* d[k] = v
PutKey(d, k, v) == [x \in DOMAIN d \cup {k} |-> IF x = k THEN v ELSE d[x]]

\* ------------------------------------------------------------------------
\* The merge of the fallback results into the report (src/app.py, main)
\* ------------------------------------------------------------------------
TVD == Key("tool_verification_data")

\* {**existing_tvd, **new_tvd} raises TypeError unless both are mappings
MergeRaises(report, fallback_results) ==
    /\ Has(fallback_results, TVD)
    /\ Has(report, TVD)
    /\ \/ ~IsDict(OrEmptyDict(report[TVD]))
       \/ ~IsDict(OrEmptyDict(fallback_results[TVD]))

\* the report after the merge: the two tool_verification_data merged key by
\* key when both have one, and update() with the fallback results
MergedTvd(existing_tvd, new_tvd) ==
    DictText(MergeItems(OrderedItems(existing_tvd), OrderedItems(new_tvd)))
MergeInto(report, fallback_results) ==
    IF Has(fallback_results, TVD) /\ Has(report, TVD)
    THEN Update(PutKey(report, TVD,
                    MergedTvd(OrEmptyDict(report[TVD]), OrEmptyDict(fallback_results[TVD]))),
                Without(fallback_results, TVD))
    ELSE Update(report, fallback_results)

\* "if not st.session_state.diagnostic_report: ... = {}"
OrEmptyReport(r) == IF TruthyReport(r) THEN r.items ELSE EmptyDict

\* ------------------------------------------------------------------------
\* The tail of a run in main: the visualization and the chat message
\* ------------------------------------------------------------------------
\* tvd.get(...) raises AttributeError when tool_verification_data is truthy
\* and no dict
VisualizationRaises(r) ==
    /\ TruthyReport(r)
    /\ ~IsDict(OrEmptyDict(Get(r.items, TVD)))

\* report.get('confidence_score', 0)*100 formatted with :.1f raises unless
\* the value is a number (or a bool)
ConfidenceRaises(r) ==
    /\ TruthyReport(r)
    /\ Has(r.items, Key("confidence_score"))
    /\ LET v == r.items[Key("confidence_score")]
       IN ~(Len(v) = 1 /\ (IsNumber(v[1]) \/ v[1] \in {"true", "false"}))

\* ------------------------------------------------------------------------
\* The raw text that _extract_outputs_with_gemini submits (src/utils.py).
\* The code cuts the text by character counts, so here a text is measured
\* in characters: every atom has the width of the characters it stands for,
\* and a cut text is a sequence of pieces, each a range of character
\* positions of the original text or of an inserted literal.
\* ------------------------------------------------------------------------
\* the width of the long word of an overlong response
LongWidth == 12000

Width(a) ==
    CASE a \in {QUOTE, BACKSLASH, NL, SP, LBRACE, RBRACE, LBRACKET, RBRACKET, COMMA, COLON,
                "0", "1", "2", "x", "y"} -> 1
      [] a \in {"12", "30"} -> 2
      [] a \in {FENCE, "RED"} -> 3
      [] a \in {"null", "true", "json"} -> 4
      [] a \in {"false", "GREEN"} -> 5
      [] a = "risk_score" -> 10
      [] a = "sepsis_risk" -> 11
      [] a = "triage_urgency" -> 14
      [] a \in {"confidence_score", "evidence_summary"} -> 16
      [] a \in {"differential_diagnosis", "tool_verification_data"} -> 22
      [] a = "long" -> LongWidth

\* len(text)
RECURSIVE CharLen(_)
CharLen(t) == IF t = <<>> THEN 0 ELSE Width(t[1]) + CharLen(Tail(t))

\* text.find(c) and text.rfind(c) for a one-character atom c, as the position
\* of the character (1-based; 0 is "not found")
CharFind(t, c) == IF Find(t, c) = 0 THEN 0 ELSE CharLen(Take(t, Find(t, c) - 1)) + 1
CharRFind(t, c) == IF RFind(t, c) = 0 THEN 0 ELSE CharLen(Take(t, RFind(t, c) - 1)) + 1

\* pieces of a cut text
Original(from, to) == IF from > to THEN <<>> ELSE <<[orig |-> TRUE, from |-> from, to |-> to]>>
Literal(n) == IF n <= 0 THEN <<>> ELSE <<[orig |-> FALSE, from |-> 1, to |-> n]>>

RECURSIVE PiecesLen(_)
PiecesLen(r) == IF r = <<>> THEN 0 ELSE (r[1].to - r[1].from + 1) + PiecesLen(Tail(r))

\* r[:n]
RECURSIVE PiecesTake(_, _)
PiecesTake(r, n) ==
    IF n <= 0 \/ r = <<>> THEN <<>>
    ELSE IF r[1].to - r[1].from + 1 <= n
         THEN <<r[1]>> \o PiecesTake(Tail(r), n - (r[1].to - r[1].from + 1))
    ELSE <<[r[1] EXCEPT !.to = r[1].from + n - 1]>>

\* r[-n:]
RECURSIVE PiecesLast(_, _)
PiecesLast(r, n) ==
    IF n <= 0 \/ r = <<>> THEN <<>>
    ELSE IF r[Len(r)].to - r[Len(r)].from + 1 <= n
         THEN PiecesLast(Take(r, Len(r) - 1), n - (r[Len(r)].to - r[Len(r)].from + 1))
              \o <<r[Len(r)]>>
    ELSE <<[r[Len(r)] EXCEPT !.from = r[Len(r)].to - n + 1]>>

\* the number of decimal digits of n, as the f-string prints it
RECURSIVE Digits(_)
Digits(n) == IF n < 10 THEN 1 ELSE 1 + Digits(n \div 10)

TRUNCATE_OVER == 10000
PORTION_OVER == 8000
PORTION_KEEP == 4000
HEAD_KEEP == 5000
TAIL_KEEP == 2000
PROMPT_KEEP == 3000

\* "\n... [truncated] ...\n"
TruncatedMarker == Literal(21)
\* f"Response summary (truncated from {len(raw_response_text)} chars):\n"
SummaryPrefix(n) == Literal(33 + Digits(n) + 9)

\* json_portion, cut to its first and last PORTION_KEEP characters when it is
\* longer than PORTION_OVER
CutPortion(portion) ==
    IF PiecesLen(portion) > PORTION_OVER
    THEN PiecesTake(portion, PORTION_KEEP) \o TruncatedMarker
         \o PiecesLast(portion, PORTION_KEEP)
    ELSE portion

\* raw_response_text after "Truncate very large responses": n is its
\* length, start and end the positions of its first "{" and last "}"
TruncateLarge(n, start, end) ==
    IF n > TRUNCATE_OVER
    THEN IF start # 0 /\ end # 0 /\ end > start
         THEN SummaryPrefix(n) \o CutPortion(Original(start, end))
         ELSE PiecesTake(Original(1, n), HEAD_KEEP) \o TruncatedMarker
              \o PiecesLast(Original(1, n), TAIL_KEEP)
    ELSE Original(1, n)

\* raw_response_text[:3000] if len(raw_response_text) > 3000 else
\* raw_response_text, in the prompt
PromptCut(r) == IF PiecesLen(r) > PROMPT_KEEP THEN PiecesTake(r, PROMPT_KEEP) ELSE r

\* the part of the prompt that holds the agent's response
SubmittedText(raw) ==
    PromptCut(TruncateLarge(CharLen(raw), CharFind(raw, LBRACE), CharRFind(raw, RBRACE)))

\* ------------------------------------------------------------------------
\* State
\* ------------------------------------------------------------------------
VARIABLES
    pc,                       \* position in run_triage_agent
    inputs,                   \* the arguments of the run
    turn_count,
    retry_attempt,
    current_config,
    function_responses_added,
    json_config_attempted,
    last_response,
    response,
    current_contents,         \* the conversation history
    tool_logs,
    errors,
    result,                   \* the returned (report, raw_text), once returned
    raised,                   \* the exception that left run_triage_agent, if any
    calls,                    \* every generate_content call made so far
    client,                   \* the model client: its family and flakiness
    varied                    \* changes of response so far

vars == <<pc, inputs, turn_count, retry_attempt, current_config,
          function_responses_added, json_config_attempted, last_response, response,
          current_contents, tool_logs, errors, result, raised, calls, client,
          varied>>

\* calculate_sepsis_risk called on its own: the arguments, the result of the
\* call and the result of a second call with the same arguments
VARIABLES
    sepsis_args,
    sepsis_result,
    sepsis_again,
    sepsis_other              \* a call with another blood_pressure, and its result

tool_vars == <<sepsis_args, sepsis_result, sepsis_again, sepsis_other>>

\* no call with another blood pressure yet
NoCall == [args |-> SepsisHigh.args, result |-> NoValue]

\* no call of the tool on its own is under way
ToolIdle ==
    /\ sepsis_args = SepsisHigh.args
    /\ sepsis_result = NoValue
    /\ sepsis_again = NoValue
    /\ sepsis_other = NoCall

\* the session of the Streamlit application (src/app.py) and the run that
\* the "Run Triage Agent" button started
VARIABLES
    app_pc,                   \* position in main: idle, or awaiting a model call
    runs,                     \* runs started in this session
    patient_labs,             \* st.session_state.patient_labs
    patient_vitals,           \* st.session_state.patient_vitals
    diagnostic_report,        \* st.session_state.diagnostic_report
    chat_message,             \* the assistant's message in chat_history
    uploaded,                 \* what the images of the run yielded
    passed,                   \* labs_json and vitals_list of the run
    raw_json_response,        \* st.session_state.raw_json_response
    model_calls,              \* the generate_content calls of the run
    fallback_calls,           \* calls of _extract_outputs_with_gemini in the run
    fallback_results,         \* what the last of them returned
    session_tool_logs,        \* st.session_state.tool_logs
    chat_notes,               \* the user's message in chat_history
    shown_error               \* the st.error the last click displayed

app_vars == <<app_pc, runs, patient_labs, patient_vitals, diagnostic_report,
              chat_message, uploaded, passed, raw_json_response, model_calls,
              fallback_calls, fallback_results, session_tool_logs, chat_notes,
              shown_error>>

\* get_default_data() (src/mock_data.py): values are kept as their text
DEFAULT_LABS_JSON ==
    [WBC_count |-> "7.5", Lactate_level |-> "1.2", Troponin |-> "0.01",
     Hemoglobin |-> "14.5"]
Measurement(time, spo2, heart_rate) == [time |-> time, SpO2 |-> spo2, HeartRate |-> heart_rate]
DEFAULT_VITALS_TIMESERIES_JSON ==
    <<Measurement(0, 98, 72), Measurement(1, 98, 70), Measurement(2, 99, 68),
      Measurement(3, 98, 70)>>

\* an optional value: None, or the value
Absent == [is_none |-> TRUE, value |-> <<>>]
Present(v) == [is_none |-> FALSE, value |-> v]

\* the session state initialization at the top of src/app.py
SessionInit ==
    /\ app_pc = "idle"
    /\ runs = 0
    /\ patient_labs = DEFAULT_LABS_JSON
    /\ patient_vitals = DEFAULT_VITALS_TIMESERIES_JSON
    /\ diagnostic_report = NoneReport
    /\ chat_message = "none"
    /\ uploaded = <<>>
    /\ passed = [labs |-> Absent, vitals |-> Absent]
    /\ raw_json_response = NoText
    /\ model_calls = <<>>
    /\ fallback_calls = 0
    /\ fallback_results = NoneReport
    /\ session_tool_logs = <<>>
    /\ chat_notes = "none"
    /\ shown_error = "none"

\* a call of build_patient_contents (src/utils.py): its arguments and the
\* parts it returned
VARIABLES contents_args, contents
contents_vars == <<contents_args, contents>>

\* the arguments of a call: an argument that is None or empty is "none" for a
\* text and Absent for a dict or list
NoArguments ==
    [notes |-> "none", image_base64 |-> "none", image_mime |-> "none", labs |-> Absent,
     vitals |-> Absent, image_analysis |-> "none", lab_analysis |-> "text"]
ContentsIdle ==
    /\ contents_args = NoArguments
    /\ contents = <<>>

\* the state that run_triage_agent leaves alone
other_vars == <<tool_vars, app_vars, contents_vars>>

NoConfig == [tools |-> FALSE, response_mime_type |-> FALSE, response_schema |-> FALSE]
NoResult == [returned |-> FALSE, report |-> NoReport, raw_text |-> NoText]
Returned(report, raw_text) == [returned |-> TRUE, report |-> report, raw_text |-> raw_text]

ErrorEntry(kind, detail) == [kind |-> kind, detail |-> detail]

Init ==
    /\ pc = "start"
    /\ inputs \in RunInputs
    /\ turn_count = 0
    /\ retry_attempt = 0
    /\ current_config = NoConfig
    /\ function_responses_added = FALSE
    /\ json_config_attempted = FALSE
    /\ last_response = NoResponse
    /\ response = NoResponse
    /\ current_contents = <<>>
    /\ tool_logs = <<>>
    /\ errors = <<>>
    /\ result = NoResult
    /\ raised = "none"
    /\ calls = <<>>
    /\ client \in Clients
    /\ varied = 0
    /\ ToolIdle
    /\ SessionInit
    /\ ContentsIdle

\* return report, raw_text, tool_logs, errors
Return(report, raw_text, logs, errs) ==
    /\ pc' = "done"
    /\ result' = Returned(report, raw_text)
    /\ tool_logs' = logs
    /\ errors' = errs

\* an exception leaves run_triage_agent
Raise(exc) ==
    /\ pc' = "raised"
    /\ raised' = exc
    /\ UNCHANGED <<result, tool_logs, errors>>

\* get_gemini_client, the client check and build_patient_contents
Start ==
    /\ pc = "start"
    /\ IF ~inputs.client
       THEN Raise("ValueError") /\ UNCHANGED current_contents
       ELSE IF inputs.image = "bad_base64"
       THEN Raise("binascii.Error") /\ UNCHANGED current_contents
       ELSE /\ current_contents' = build_patient_contents(inputs.image)
            /\ pc' = "turn"
            /\ UNCHANGED <<result, tool_logs, errors, raised>>
    /\ UNCHANGED <<other_vars, inputs, turn_count, retry_attempt, current_config,
                   function_responses_added, json_config_attempted, last_response,
                   response, calls, client, varied>>

\* head of a loop iteration: the configuration of the turn
BeginTurn ==
    /\ pc = "turn"
    /\ turn_count < MAX_TURNS
    /\ LET c == ChooseConfig(function_responses_added, json_config_attempted, turn_count)
       IN /\ current_config' = c.config
          /\ function_responses_added' = c.function_responses_added
          /\ json_config_attempted' = c.json_config_attempted
    /\ retry_attempt' = 0
    /\ response' = NoResponse
    /\ pc' = "call"
    /\ UNCHANGED <<other_vars, inputs, turn_count, last_response, current_contents, tool_logs,
                   errors, result, raised, calls, client, varied>>

CallRecord(outcome) ==
    [turn |-> turn_count, attempt |-> retry_attempt, config |-> current_config,
     outcome |-> outcome, logged |-> Len(tool_logs), history |-> Len(current_contents)]

\* client.models.generate_content returns a response
GenerateContent(r) ==
    /\ pc = "call"
    /\ retry_attempt >= client.flakiness
    /\ r.calls # <<>> =>
           IF client.family = "varied"
           THEN varied < MaxVariedTurns \/ r = last_response
           ELSE r = SteadyToolResponse
    /\ varied' = IF r # last_response THEN varied + 1 ELSE varied
    /\ response' = r
    /\ last_response' = r
    /\ calls' = Append(calls, CallRecord("response"))
    /\ pc' = "respond"
    /\ UNCHANGED <<other_vars, inputs, turn_count, retry_attempt, current_config,
                   function_responses_added, json_config_attempted, current_contents,
                   tool_logs, errors, result, raised, client>>

\* client.models.generate_content raises APIError
GenerateApiError(desc) ==
    /\ pc = "call"
    /\ is_retryable(desc) <=> retry_attempt < client.flakiness
    /\ IF is_retryable(desc) /\ retry_attempt < MAX_RETRIES - 1
       THEN /\ tool_logs' = Append(tool_logs,
                                   LogEntry("ERROR", turn_count, "generate_content",
                                            "retrying", NoValue))
            /\ retry_attempt' = retry_attempt + 1
            /\ calls' = Append(calls, CallRecord("transient"))
            /\ UNCHANGED <<pc, errors, result>>
       ELSE /\ Return(NoReport, <<"Error:", SP>> \o desc, tool_logs,
                      Append(errors, ErrorEntry("fatal_api_error", desc)))
            /\ calls' = Append(calls, CallRecord(IF is_retryable(desc)
                                                 THEN "exhausted" ELSE "fatal"))
            /\ UNCHANGED retry_attempt
    /\ UNCHANGED <<other_vars, inputs, turn_count, current_config, function_responses_added,
                   json_config_attempted, last_response, response, current_contents,
                   raised, client, varied>>

\* client.models.generate_content raises any other exception
GenerateException ==
    /\ pc = "call"
    /\ retry_attempt >= client.flakiness
    /\ Return(NoReport, <<"Error: Unexpected Runtime Issue.">>, tool_logs,
              Append(errors, ErrorEntry("unexpected_error", <<"exception">>)))
    /\ calls' = Append(calls, CallRecord("exception"))
    /\ UNCHANGED <<other_vars, inputs, turn_count, retry_attempt, current_config,
                   function_responses_added, json_config_attempted, last_response,
                   response, current_contents, raised, client, varied>>

\* response.candidates[0] on a response without candidates
NoCandidates ==
    /\ pc = "respond"
    /\ ~response.candidates
    /\ Raise("IndexError")
    /\ UNCHANGED <<other_vars, inputs, turn_count, retry_attempt, current_config,
                   function_responses_added, json_config_attempted, last_response,
                   response, current_contents, calls, client, varied>>

TurnLog(kind) == LogEntry("TURN", turn_count, "", kind, NoValue)

JsonInstruction == [role |-> "user", kind |-> "json_instruction", parts |-> <<>>]
ToolResultInstruction ==
    [role |-> "user", kind |-> "json_instruction_after_tools", parts |-> <<>>]
ModelContent(resp) ==
    [role |-> "model", kind |-> "model_content",
     parts |-> resp.calls \o (IF resp.text = <<>> THEN <<>> ELSE <<resp.text>>)]

\* the branches of "Final Response Detection", given the text of the
\* response, the log after the text extraction, and the parse attempts
Detect(raw_json_text, logs1, first, clean, extract) ==
    IF first.found
    THEN /\ Return(first.report, first.raw_text, Append(logs1, TurnLog(first.via)), errors)
         /\ UNCHANGED <<turn_count, current_contents, json_config_attempted>>
    ELSE IF current_config = config_json_turn
    THEN /\ Return(NoReport,
                   IF IsText(raw_json_text) THEN raw_json_text ELSE <<"No text content">>,
                   logs1, Append(errors, ErrorEntry("invalid_json", <<>>)))
         /\ UNCHANGED <<turn_count, current_contents, json_config_attempted>>
    ELSE IF response.content /\ IsText(raw_json_text) /\ Strip(raw_json_text) # <<>>
    THEN IF clean.found
         THEN /\ Return(clean.report, clean.raw_text,
                        Append(logs1, TurnLog(clean.via)), errors)
              /\ UNCHANGED <<turn_count, current_contents, json_config_attempted>>
         ELSE IF ~json_config_attempted
         THEN \* switch to the JSON config: continue with the next turn
              /\ current_contents' =
                     current_contents \o <<ModelContent(response), JsonInstruction>>
              /\ json_config_attempted' = TRUE
              /\ turn_count' = turn_count + 1
              /\ pc' = "turn"
              /\ tool_logs' = logs1
              /\ UNCHANGED <<result, errors>>
         ELSE IF extract.found
         THEN /\ Return(extract.report, extract.raw_text,
                        Append(logs1, TurnLog(extract.via)), errors)
              /\ UNCHANGED <<turn_count, current_contents, json_config_attempted>>
         ELSE /\ Return(NoReport, raw_json_text, logs1,
                        Append(errors, ErrorEntry("unparsed_text", <<>>)))
              /\ UNCHANGED <<turn_count, current_contents, json_config_attempted>>
    ELSE /\ Return(NoReport, NoText, logs1,
                   Append(errors, ErrorEntry("empty_content", <<>>)))
         /\ UNCHANGED <<turn_count, current_contents, json_config_attempted>>

\* raw is the outcome of _get_raw_json_text(response)
DetectFinal(raw) ==
    Detect(raw.text,
           IF raw.raised THEN Append(tool_logs, TurnLog("no_text")) ELSE tool_logs,
           ParseFirst(raw.text), ParseClean(raw.text),
           ExtractObject(StripFencesClean(raw.text)))

\* "Final Response Detection": the response holds no function call
FinalResponse ==
    /\ pc = "respond"
    /\ response.candidates
    /\ FunctionCalls(response) = <<>>
    /\ DetectFinal(get_raw_json_text(response))
    /\ UNCHANGED <<other_vars, inputs, retry_attempt, current_config, function_responses_added,
                   last_response, response, raised, calls, client, varied>>

\* the history update keeping only the turn-0 parts of the earlier history
FeedBackOnInitialContents(done) ==
    /\ tool_logs' = tool_logs \o done.logs
    /\ current_contents' =
           build_patient_contents(inputs.image)
           \o <<ModelContent(response),
                [role |-> "user", kind |-> "function_responses", parts |-> done.parts],
                ToolResultInstruction>>

\* the history update with the response parts in reverse order
FeedBackReversed(done) ==
    /\ tool_logs' = tool_logs \o done.logs
    /\ current_contents' =
           current_contents
           \o <<ModelContent(response),
                [role |-> "user", kind |-> "function_responses",
                 parts |-> [i \in 1..Len(done.parts) |->
                               done.parts[Len(done.parts) + 1 - i]]],
                ToolResultInstruction>>

\* "Conversation History Update (Feed results back)"
FeedBack(done) ==
    /\ tool_logs' = tool_logs \o done.logs
    /\ current_contents' =
           current_contents
           \o <<ModelContent(response),
                [role |-> "user", kind |-> "function_responses", parts |-> done.parts],
                ToolResultInstruction>>

\* "Function Call Turn": execute every call, feed the results back
FunctionCallTurn ==
    /\ pc = "respond"
    /\ response.candidates
    /\ FunctionCalls(response) # <<>>
    /\ FeedBack(ExecuteFunctions(FunctionCalls(response), 1,
                    [parts |-> <<>>,
                     logs |-> <<LogEntry("TURN", turn_count, "", "function_calls",
                                         NoValue)>>]))
    /\ function_responses_added' = TRUE
    /\ turn_count' = turn_count + 1
    /\ pc' = "turn"
    /\ UNCHANGED <<other_vars, inputs, retry_attempt, current_config, json_config_attempted,
                   last_response, response, errors, result, raised, calls, client, varied>>

\* the return after the loop that records no error when nothing was extracted
AfterLoopWithoutError(last) ==
    IF last.found
    THEN Return(last.report, last.raw_text,
                Append(tool_logs, LogEntry("FINAL", turn_count, "", "extracted", NoValue)),
                Append(errors, ErrorEntry("warning_partial", <<>>)))
    ELSE Return(NoReport, NoText,
                Append(tool_logs, LogEntry("ERROR", turn_count, "", "max_turns", NoValue)),
                errors)

\* the return after the loop that returns an extracted report without a warning
AfterLoopWithoutWarning(last) ==
    IF last.found
    THEN Return(last.report, last.raw_text,
                Append(tool_logs, LogEntry("FINAL", turn_count, "", "extracted", NoValue)),
                errors)
    ELSE Return(NoReport, NoText,
                Append(tool_logs, LogEntry("ERROR", turn_count, "", "max_turns", NoValue)),
                Append(errors, ErrorEntry("max_turns", <<>>)))

\* the return after the loop that records the turn limit next to the warning
AfterLoopBothErrors(last) ==
    IF last.found
    THEN Return(last.report, last.raw_text,
                Append(tool_logs, LogEntry("FINAL", turn_count, "", "extracted", NoValue)),
                errors \o <<ErrorEntry("warning_partial", <<>>), ErrorEntry("max_turns", <<>>)>>)
    ELSE Return(NoReport, NoText,
                Append(tool_logs, LogEntry("ERROR", turn_count, "", "max_turns", NoValue)),
                Append(errors, ErrorEntry("max_turns", <<>>)))

\* the return after the loop, given the outcome of the last attempt
AfterLoop(last) ==
    IF last.found
    THEN Return(last.report, last.raw_text,
                Append(tool_logs, LogEntry("FINAL", turn_count, "", "extracted", NoValue)),
                Append(errors, ErrorEntry("warning_partial", <<>>)))
    ELSE Return(NoReport, NoText,
                Append(tool_logs, LogEntry("ERROR", turn_count, "", "max_turns", NoValue)),
                Append(errors, ErrorEntry("max_turns", <<>>)))

\* the loop finished without returning: the last attempt on last_response
TurnsExhausted ==
    /\ pc = "turn"
    /\ turn_count >= MAX_TURNS
    /\ AfterLoop(IF last_response = NoResponse THEN NotFound
                 ELSE LastAttempt(last_response))
    /\ UNCHANGED <<other_vars, inputs, turn_count, retry_attempt, current_config,
                   function_responses_added, json_config_attempted, last_response,
                   response, current_contents, raised, calls, client, varied>>

Next ==
    \/ Start
    \/ BeginTurn
    \/ \E r \in Responses : GenerateContent(r)
    \/ \E desc \in ErrorDescs : GenerateApiError(desc)
    \/ GenerateException
    \/ NoCandidates
    \/ FinalResponse
    \/ FunctionCallTurn
    \/ TurnsExhausted

Spec == Init /\ [][Next]_vars

\* ------------------------------------------------------------------------
\* Properties of run_triage_agent
\* ------------------------------------------------------------------------
\* the two modes of a model call
ToolPhase(c) == c.tools /\ ~c.response_mime_type /\ ~c.response_schema
JsonPhase(c) == ~c.tools /\ c.response_mime_type /\ c.response_schema

\* the run has ended: by a return, or by an exception leaving the function
Ended == pc \in {"done", "raised"}

\* C1: run_triage_agent never raises to its caller: every run that ends has
\* returned a result, and a result without a report carries a non-empty
\* errors list.
C1_NeverRaises ==
    Ended => /\ pc = "done"
             /\ raised = "none"
             /\ result.returned
             /\ (result.report = NoReport => errors # <<>>)

\* C2: a run that has called the model makes at most MAX_TURNS turns and at
\* most MAX_RETRIES attempts per turn (MAX_TURNS * MAX_RETRIES calls), and when
\* it ends it ends with a report, or with the report absent and an error
\* recorded.
C2_BoundedAndSettled ==
    calls # <<>> =>
        /\ turn_count <= MAX_TURNS
        /\ Len(calls) <= MAX_TURNS * MAX_RETRIES
        /\ \A i \in DOMAIN calls :
               calls[i].turn < MAX_TURNS /\ calls[i].attempt < MAX_RETRIES
        /\ Ended => /\ pc = "done"
                    /\ result.report # NoReport \/ errors # <<>>

\* C3: every model call is made in exactly one of the two modes: tools with
\* no response schema and no JSON MIME type, or schema and MIME type with no
\* tools; none has both, none has neither.
C3_OneModePerCall ==
    \A i \in DOMAIN calls :
        /\ ToolPhase(calls[i].config) \/ JsonPhase(calls[i].config)
        /\ calls[i].config.tools # calls[i].config.response_schema
        /\ calls[i].config.tools # calls[i].config.response_mime_type

C3_BothModesUsed ==
    /\ \E i \in DOMAIN calls : ToolPhase(calls[i].config)
    /\ \E i \in DOMAIN calls : JsonPhase(calls[i].config)

\* The history grows only at the end of a turn, so the entries that the
\* previous turn appended are the last ones of the history a call was made
\* with: calls[i].history is the length of that history.
AfterToolResults(i) ==
    /\ calls[i].history >= 2
    /\ current_contents[calls[i].history - 1].kind = "function_responses"
    /\ current_contents[calls[i].history] = ToolResultInstruction

AfterJsonInstruction(i) ==
    /\ calls[i].history >= 2
    /\ current_contents[calls[i].history - 1].kind = "model_content"
    /\ current_contents[calls[i].history] = JsonInstruction

\* C4: when the previous turn appended tool-call results to the history, the
\* model call of the turn is made in JSON_PHASE.
C4_JsonAfterToolResults ==
    \A i \in DOMAIN calls : AfterToolResults(i) => JsonPhase(calls[i].config)

C4_CallAfterToolResults ==
    \E i \in DOMAIN calls :
        AfterToolResults(i) /\ JsonPhase(calls[i].config) /\ calls[i].turn >= 1

\* C5: when a TOOL_PHASE turn without tool-call requests failed to yield a
\* report and the 'reply with JSON only' instruction was appended, the model
\* call of the next turn is made in JSON_PHASE.
C5_JsonAfterInstruction ==
    \A i \in DOMAIN calls : AfterJsonInstruction(i) => JsonPhase(calls[i].config)

JsonPhaseFailure ==
    /\ pc = "respond"
    /\ JsonPhase(current_config)
    /\ FunctionCalls(response) = <<>>
    /\ ~ParseFirst(get_raw_json_text(response).text).found

\* C7: a JSON_PHASE turn whose response holds no tool-call request and no
\* extractable report ends the run with the report absent, an
\* invalid-structured-output error recorded, and the raw text of the response
\* (or a placeholder) as raw_text.
C7_JsonPhaseFailureFails ==
    [][JsonPhaseFailure =>
          /\ pc' = "done"
          /\ result'.returned
          /\ result'.report = NoReport
          /\ result'.raw_text = (IF IsText(response.text) THEN response.text
                                 ELSE <<"No text content">>)
          /\ errors' = Append(errors, ErrorEntry("invalid_json", <<>>))]_vars

\* the error description contains, case-insensitively, one of the transient
\* markers
TransientMarkers == {"429", "resource_exhausted", "quota", "500", "internal", "server"}
Transient(desc) == \E w \in TransientMarkers : Contains(LowerStr(desc), w)

\* C8: a call failing with a transient API error is retried within the same
\* turn, up to MAX_RETRIES attempts in total; a successful attempt continues
\* the turn with its response; the failure of the last attempt ends the run
\* with the error recorded and the report absent.
C8_TransientRetried ==
    /\ [](/\ retry_attempt < MAX_RETRIES
          /\ \A i \in DOMAIN calls :
                 /\ calls[i].attempt < MAX_RETRIES
                 /\ calls[i].outcome = "transient" /\ i < Len(calls) =>
                        /\ calls[i + 1].turn = calls[i].turn
                        /\ calls[i + 1].attempt = calls[i].attempt + 1
                        /\ calls[i + 1].config = calls[i].config)
    /\ [][/\ \A desc \in ErrorDescs :
                 Transient(desc) /\ GenerateApiError(desc) =>
                     IF retry_attempt < MAX_RETRIES - 1
                     THEN /\ pc' = "call"
                          /\ retry_attempt' = retry_attempt + 1
                          /\ turn_count' = turn_count
                          /\ current_config' = current_config
                          /\ current_contents' = current_contents
                          /\ result' = result
                          /\ errors' = errors
                     ELSE /\ pc' = "done"
                          /\ result'.returned
                          /\ result'.report = NoReport
                          /\ errors' = Append(errors, ErrorEntry("fatal_api_error", desc))
          /\ \A r \in Responses :
                 GenerateContent(r) =>
                     /\ pc' = "respond"
                     /\ response' = r
                     /\ turn_count' = turn_count
                     /\ errors' = errors]_vars

\* the last of MAX_RETRIES attempts of a turn failed, after transient failures
\* of all the attempts before it
C8_RetriesExhausted ==
    /\ pc = "done"
    /\ Len(calls) = MAX_RETRIES
    /\ \A i \in 1..(MAX_RETRIES - 1) : calls[i].outcome = "transient"
    /\ calls[MAX_RETRIES].outcome = "exhausted"
    /\ result.report = NoReport
    /\ errors # <<>>

\* C9: a call failing with a non-transient error ends the run at once: the
\* error is recorded, the report is absent, and nothing happens afterwards (no
\* further attempt, no later turn, no tool execution).
C9_FatalEndsRun ==
    /\ [](\A i \in DOMAIN calls :
              calls[i].outcome \in {"fatal", "exception"} =>
                  /\ i = Len(calls)
                  /\ pc = "done"
                  /\ turn_count = calls[i].turn
                  /\ Len(tool_logs) = calls[i].logged
                  /\ Len(current_contents) = calls[i].history
                  /\ result.report = NoReport
                  /\ errors # <<>>)
    /\ [][/\ \A desc \in ErrorDescs :
                 ~Transient(desc) /\ GenerateApiError(desc) =>
                     /\ pc' = "done"
                     /\ result'.returned
                     /\ result'.report = NoReport
                     /\ errors' = Append(errors, ErrorEntry("fatal_api_error", desc))
                     /\ tool_logs' = tool_logs
          /\ GenerateException =>
                 /\ pc' = "done"
                 /\ result'.report = NoReport
                 /\ errors' = Append(errors, ErrorEntry("unexpected_error", <<"exception">>))
                 /\ tool_logs' = tool_logs
          /\ pc = "done" => FALSE]_vars

\* a non-transient API error on a turn after tools were executed
C9_FatalAfterTools ==
    /\ pc = "done"
    /\ calls # <<>>
    /\ calls[Len(calls)].outcome = "fatal"
    /\ calls[Len(calls)].turn >= 1
    /\ tool_logs # <<>>
    /\ result.report = NoReport

\* C10: for a response with k >= 1 tool-call requests, every request is
\* executed once, in order: the tool log gains one [ACTION] entry per request,
\* each followed by the entry of its execution; the history gains the model
\* entry holding the calls, one user entry holding the k results in the order of
\* the requests, and the instruction demanding the final report; the run
\* goes on with the next turn.
C10_CallsExecutedInOrder ==
    [][pc = "respond" /\ response.candidates /\ FunctionCalls(response) # <<>> =>
          LET fc == FunctionCalls(response)
              k == Len(fc)
              n == Len(current_contents)
              m == Len(tool_logs)
              results == current_contents'[n + 2]
          IN /\ pc' = "turn"
             /\ turn_count' = turn_count + 1
             /\ Len(current_contents') = n + 3
             /\ SubSeq(current_contents', 1, n) = current_contents
             /\ current_contents'[n + 1].role = "model"
             /\ \A i \in 1..k : current_contents'[n + 1].parts[i] = fc[i]
             /\ results.role = "user"
             /\ Len(results.parts) = k
             /\ \A i \in 1..k :
                    /\ results.parts[i].name = fc[i].name
                    /\ results.parts[i].kind = "function_response" =>
                           results.parts[i].value = ToolResult(fc[i].name, fc[i].args)
             /\ current_contents'[n + 3] = ToolResultInstruction
             /\ Len(tool_logs') = m + 1 + 2 * k
             /\ SubSeq(tool_logs', 1, m) = tool_logs
             /\ \A i \in 1..k :
                    /\ tool_logs'[m + 2 * i].tag = "ACTION"
                    /\ tool_logs'[m + 2 * i].fn = fc[i].name
                    /\ tool_logs'[m + 2 * i + 1].tag \in {"OBSERVATION", "ERROR"}
                    /\ tool_logs'[m + 2 * i + 1].fn = fc[i].name]_vars

\* two different tools were requested in one response and their results fed back
C10_TwoResultsFedBack ==
    /\ pc = "turn"
    /\ \E n \in DOMAIN current_contents :
           /\ current_contents[n].kind = "function_responses"
           /\ Len(current_contents[n].parts) >= 2
           /\ current_contents[n].parts[1].name # current_contents[n].parts[2].name
           /\ current_contents[n].parts[1].kind = "function_response"

\* the request names no tool of the registry, or its tool raises
Fails(call) ==
    \/ call.name \notin {TOOL_CONFIG[k] : k \in 1..Len(TOOL_CONFIG)}
    \/ ToolRaises(call.name, call.args)

\* C11: a tool call with an unknown name, or whose tool raises, does not raise
\* to the orchestrator and does not abort its siblings: its slot holds an error
\* payload, an [ERROR] entry is logged for it, every other call of the turn is
\* executed and answered with its result, and the run goes on with the next turn.
C11_FailureKeepsSiblings ==
    [][pc = "respond" /\ response.candidates /\ FunctionCalls(response) # <<>> =>
          LET fc == FunctionCalls(response)
              m == Len(tool_logs)
              results == current_contents'[Len(current_contents) + 2]
          IN /\ pc' = "turn"
             /\ raised' = "none"
             /\ turn_count' = turn_count + 1
             /\ Len(results.parts) = Len(fc)
             /\ \A i \in 1..Len(fc) :
                    IF Fails(fc[i])
                    THEN /\ results.parts[i].kind = "text"
                         /\ results.parts[i].error # "none"
                         /\ results.parts[i].name = fc[i].name
                         /\ tool_logs'[m + 2 * i + 1].tag = "ERROR"
                         /\ tool_logs'[m + 2 * i + 1].fn = fc[i].name
                    ELSE /\ results.parts[i].kind = "function_response"
                         /\ results.parts[i].error = "none"
                         /\ results.parts[i].value = ToolResult(fc[i].name, fc[i].args)
                         /\ tool_logs'[m + 2 * i + 1].tag = "OBSERVATION"
                         /\ tool_logs'[m + 2 * i + 1].fn = fc[i].name]_vars

\* a tool that raised, followed in the same turn by a tool that was executed,
\* and the run in its next turn
C11_SiblingAfterFailure ==
    /\ pc = "call"
    /\ turn_count >= 1
    /\ \E n \in DOMAIN current_contents :
           /\ current_contents[n].kind = "function_responses"
           /\ Len(current_contents[n].parts) >= 2
           /\ current_contents[n].parts[1].error = "failed"
           /\ current_contents[n].parts[2].kind = "function_response"
    /\ \E j \in DOMAIN tool_logs : tool_logs[j].tag = "ERROR" /\ tool_logs[j].kind = "failed"

\* C12: the conversation history is append-only: in every step the history
\* before the step is a prefix of the history after it, and once built the
\* turn-0 parts stay its first entries.
C12_HistoryAppendOnly ==
    /\ [][/\ Len(current_contents') >= Len(current_contents)
          /\ SubSeq(current_contents', 1, Len(current_contents)) = current_contents]_vars
    /\ [](current_contents # <<>> =>
              SubSeq(current_contents, 1, Len(build_patient_contents(inputs.image)))
                  = build_patient_contents(inputs.image))

\* the history was extended in two different turns
C12_HistoryGrownTwice ==
    /\ turn_count >= 2
    /\ Len(current_contents) >= Len(build_patient_contents(inputs.image)) + 5

\* C13: every report returned by run_triage_agent, on every return path, is a
\* mapping that contains the triage_urgency field.
C13_ReportHasUrgency ==
    pc = "done" /\ result.report # NoReport => HasUrgency(result.report)

Urgencies == {<<"RED">>, <<"YELLOW">>, <<"GREEN">>}

\* C14: every report returned by run_triage_agent has a triage_urgency that is
\* one of the strings RED, YELLOW, GREEN.
C14_UrgencyInEnum ==
    pc = "done" /\ result.report # NoReport =>
        /\ result.report.urgency.kind = "str"
        /\ result.report.urgency.text \in Urgencies

\* the turns of the run that ended with tool results fed back
ToolTurns == {n \in DOMAIN current_contents : current_contents[n].kind = "function_responses"}

\* the model returned tool-call requests on each of the MAX_TURNS turns, and
\* its last response holds no JSON object
OnlyToolCalls ==
    /\ Cardinality(ToolTurns) = MAX_TURNS
    /\ ~Contains(last_response.text, LBRACE)

\* C15: when the model returns tool-call requests and no structured output
\* on every turn, the run ends after exactly MAX_TURNS turns with the report
\* absent, a 'maximum turns' error in errors and at least MAX_TURNS entries in
\* the tool log.
C15_ToolLoopHitsBudget ==
    pc = "done" /\ OnlyToolCalls =>
        /\ turn_count = MAX_TURNS
        /\ {calls[i].turn : i \in DOMAIN calls} = 0..(MAX_TURNS - 1)
        /\ result.returned
        /\ result.report = NoReport
        /\ \E e \in DOMAIN errors : errors[e].kind = "max_turns"
        /\ Len(tool_logs) >= MAX_TURNS

C15_ToolLoopEnded ==
    /\ pc = "done"
    /\ OnlyToolCalls
    /\ result.report = NoReport
    /\ errors = <<ErrorEntry("max_turns", <<>>)>>

\* C16: when the turn budget is exhausted, one last extraction is attempted on
\* the most recent response: a report it yields is returned with a warning
\* recorded in errors, otherwise the report is absent and a 'max turns' error is
\* recorded; no other return holds both a report and a non-empty errors list.
C16_LastAttemptOutcome ==
    /\ [][pc = "turn" /\ turn_count >= MAX_TURNS =>
              /\ last_response = response
              /\ pc' = "done"
              /\ result'.returned
              /\ IF LastAttempt(response).found
                 THEN /\ result'.report = LastAttempt(response).report
                      /\ result'.report # NoReport
                      /\ errors' = Append(errors, ErrorEntry("warning_partial", <<>>))
                 ELSE /\ result'.report = NoReport
                      /\ errors' = Append(errors, ErrorEntry("max_turns", <<>>))]_vars
    /\ [](pc = "done" /\ result.report # NoReport /\ errors # <<>> =>
              /\ turn_count = MAX_TURNS
              /\ errors = <<ErrorEntry("warning_partial", <<>>)>>)

\* the last attempt extracted a report with a triage_urgency from the text that
\* came with the function calls of the last turn
C16_ReportWithWarning ==
    /\ pc = "done"
    /\ turn_count = MAX_TURNS
    /\ HasUrgency(result.report)
    /\ errors = <<ErrorEntry("warning_partial", <<>>)>>

\* the entries of the tool log with a given tag, and the functions they name
Tagged(tag) == SelectSeq(tool_logs, LAMBDA e : e.tag = tag)
Functions(entries) == [i \in DOMAIN entries |-> entries[i].fn]

\* the conversation so far: the model requested both tools with valid
\* arguments on turn 0 and answered on turn 1 with a JSON object that has a
\* triage_urgency
BothToolsThenReport ==
    LET n == Len(build_patient_contents(inputs.image))
    IN /\ turn_count = 1
       /\ Len(current_contents) = n + 3
       /\ current_contents[n + 2].kind = "function_responses"
       /\ Len(current_contents[n + 2].parts) = 2
       /\ {current_contents[n + 1].parts[i].name : i \in 1..2}
              = {TOOL_CONFIG[k] : k \in 1..Len(TOOL_CONFIG)}
       /\ \A i \in 1..2 : ~Fails(current_contents[n + 1].parts[i])
       /\ FunctionCalls(last_response) = <<>>
       /\ HasUrgency(JsonLoads(last_response.text))

\* C17: when the model requests both tools with valid arguments on turn 0 and
\* returns a JSON report with a triage_urgency on turn 1, the run returns that
\* report on turn 1 with empty errors, and the tool log holds exactly 2
\* [ACTION] and 2 [OBSERVATION] entries in the order of the requests.
C17_HappyPath ==
    pc = "done" /\ BothToolsThenReport =>
        LET n == Len(build_patient_contents(inputs.image))
            requested == [i \in 1..2 |-> current_contents[n + 1].parts[i].name]
        IN /\ result.returned
           /\ result.report = JsonLoads(last_response.text)
           /\ errors = <<>>
           /\ calls[Len(calls)].turn = 1
           /\ Functions(Tagged("ACTION")) = requested
           /\ Functions(Tagged("OBSERVATION")) = requested

C17_HappyPathReturned ==
    /\ pc = "done"
    /\ BothToolsThenReport
    /\ HasUrgency(result.report)
    /\ Len(Tagged("OBSERVATION")) = 2

\* the tools whose [OBSERVATION] entries are in the tool log
Observed == {Tagged("OBSERVATION")[i].fn : i \in 1..Len(Tagged("OBSERVATION"))}
BothToolsExecuted == Observed = {TOOL_CONFIG[k] : k \in 1..Len(TOOL_CONFIG)}

\* the risk scores that calculate_sepsis_risk computed in this run
ComputedScores ==
    {Tagged("OBSERVATION")[i].value.risk_score :
        i \in {j \in 1..Len(Tagged("OBSERVATION")) :
                   Tagged("OBSERVATION")[j].fn = "calculate_sepsis_risk"}}

\* the number a JSON number token stands for
JsonNumber(a) ==
    CASE a = "0" -> 0 [] a = "1" -> 1 [] a = "2" -> 2 [] a = "12" -> 12 [] a = "30" -> 30

\* report["tool_verification_data"]["risk_score"], read from the canonical
\* form of the report: the number tokens that follow the two keys
RiskScoreKey ==
    Q("tool_verification_data") \o <<COLON, LBRACE>> \o Q("risk_score") \o <<COLON>>
ReportedScores(p) ==
    {JsonNumber(p.canon[i + Len(RiskScoreKey)]) :
        i \in {j \in 1..(Len(p.canon) - Len(RiskScoreKey)) :
                   /\ SubSeq(p.canon, j, j + Len(RiskScoreKey) - 1) = RiskScoreKey
                   /\ IsNumber(p.canon[j + Len(RiskScoreKey)])}}

\* C18: in a run where both tools were executed and a report is returned, the
\* report has a tool_verification_data, and the risk score in it is the one
\* that the local call of calculate_sepsis_risk computed.
C18_ReportHoldsToolOutputs ==
    pc = "done" /\ result.report # NoReport /\ BothToolsExecuted =>
        /\ <<"tool_verification_data">> \in result.report.keys
        /\ ReportedScores(result.report) # {}
        /\ ReportedScores(result.report) \subseteq ComputedScores

\* a returned report whose risk score is not one that the tools computed
C18_ModelChosenScoreReturned ==
    /\ pc = "done"
    /\ BothToolsExecuted
    /\ <<"tool_verification_data">> \in result.report.keys
    /\ ReportedScores(result.report) = {12}
    /\ ComputedScores = {30}

\* a valid DiagnosticReport-shaped JSON object: one whose triage_urgency is
\* one of the three urgencies
ReportShaped(t) ==
    /\ HasUrgency(JsonLoads(t))
    /\ JsonLoads(t).urgency.kind = "str"
    /\ JsonLoads(t).urgency.text \in Urgencies
ReportObjects == {t \in Texts : ReportShaped(t)}

\* the ways a response presents an object: plain, inside a markdown fence, or
\* with prose before and after it
Fenced(t) == <<FENCE, "json", NL>> \o t \o <<NL, FENCE>>
InProse(t) == <<"x", SP>> \o t \o <<SP, "x">>
Presents(text, t) == text = t \/ text = Fenced(t) \/ text = InProse(t)

\* the response under detection is a final response that presents t
FinalResponsePresenting(t) ==
    /\ pc = "respond"
    /\ response.candidates
    /\ FunctionCalls(response) = <<>>
    /\ Presents(response.text, t)

\* C19: a response text that is a valid DiagnosticReport-shaped JSON object,
\* plain, fenced or surrounded by prose, is extracted to the mapping equal to
\* the parsed object, in the tool phase and in the JSON phase, on every turn.
C19_ValidJsonExtracted ==
    [][\A t \in ReportObjects :
           FinalResponsePresenting(t) =>
               /\ pc' = "done"
               /\ result'.returned
               /\ result'.report = JsonLoads(t)]_vars

\* the same for the plain and the fenced presentations only
C19_PlainOrFencedExtracted ==
    [][\A t \in ReportObjects :
           FinalResponsePresenting(t) /\ response.text # InProse(t) =>
               /\ pc' = "done"
               /\ result'.returned
               /\ result'.report = JsonLoads(t)]_vars

\* the same for the prose presentation after the switch to the JSON config
\* was made and the tool config is in use again
C19_ProseExtractedLate ==
    [][\A t \in ReportObjects :
           /\ FinalResponsePresenting(t)
           /\ response.text = InProse(t)
           /\ current_config = config_tool_turn
           /\ json_config_attempted
           => /\ pc' = "done"
              /\ result'.report = JsonLoads(t)]_vars

\* the positions in t of the quotes that close a string value: the second
\* quote of a string whose opening quote follows a colon
ClosingQuotes(t) ==
    {i \in 1..Len(t) :
        /\ t[i] = QUOTE
        /\ Cardinality({j \in 1..i : t[j] = QUOTE}) % 2 = 0
        /\ \E j \in 2..(i - 1) :
               /\ t[j] = QUOTE
               /\ t[j - 1] = COLON
               /\ \A k \in (j + 1)..(i - 1) : t[k] # QUOTE}

\* the texts that are t with exactly one string value left unterminated
Unterminate(t) == {Take(t, i - 1) \o Drop(t, i) : i \in ClosingQuotes(t)}

\* the JSON object texts of the model
ObjectTexts == {t \in Texts : JsonLoads(t).ok /\ JsonLoads(t).kind = "obj"}

\* C20: when the text of the response is a JSON object text with exactly one
\* unterminated string value and otherwise balanced structure, the repair
\* cascade (_repair_json, then _repair_json_aggressive) yields a text that
\* parses to a mapping with every key of the object before the corruption.
C20_CascadeRecoversKeys ==
    \A t \in ObjectTexts :
        pc = "respond" /\ response.text \in Unterminate(t) =>
            /\ RepairCascade(response.text) # NoText
            /\ JsonLoads(RepairCascade(response.text)).ok
            /\ JsonLoads(RepairCascade(response.text)).kind = "obj"
            /\ JsonLoads(t).keys \subseteq JsonLoads(RepairCascade(response.text)).keys

\* the cascade answers an unterminated report with the empty object
C20_KeysLost ==
    /\ pc = "respond"
    /\ response.text \in Unterminate(ValidReport)
    /\ JsonLoads(RepairCascade(response.text)).ok
    /\ JsonLoads(RepairCascade(response.text)).keys = {}

\* the closing braces and brackets at the end of t
RECURSIVE TrailingClosers(_)
TrailingClosers(t) ==
    IF t # <<>> /\ t[Len(t)] \in {RBRACE, RBRACKET}
    THEN 1 + TrailingClosers(Take(t, Len(t) - 1))
    ELSE 0

\* the texts that are t with exactly k of its closing braces and brackets
\* missing, k small
MaxMissing == 2
MissingClosers(t) ==
    {Take(t, Len(t) - k) :
        k \in {j \in 1..MaxMissing : j <= TrailingClosers(t) /\ j < Len(t)}}

\* C21: when the text of the response is a JSON text with exactly k closing
\* braces or brackets missing, the structural repair appends the missing
\* closers to the end of the text, keeping the existing content, and the
\* repaired text parses: the repair gives back the complete text.
C21_ClosersAppended ==
    \A t \in ObjectTexts :
        pc = "respond" /\ response.text \in MissingClosers(t) =>
            /\ RepairCascade(response.text) # NoText
            /\ StartsWith(RepairCascade(response.text), response.text)
            /\ JsonLoads(RepairCascade(response.text)).ok
            /\ RepairCascade(response.text) = t

\* the repair answers a report that lacks its closing brace with the empty
\* object
C21_ContentDropped ==
    /\ pc = "respond"
    /\ response.text \in MissingClosers(ValidReport)
    /\ RepairJson(response.text) = <<LBRACE, RBRACE>>
    /\ RepairCascade(response.text) = <<LBRACE, RBRACE>>

\* ------------------------------------------------------------------------
\* calculate_sepsis_risk (src/tools.py) on bounded inputs
\* ------------------------------------------------------------------------
\* no run of the orchestrator is under way
RunIdle ==
    /\ pc = "start"
    /\ inputs = [client |-> TRUE, image |-> "absent"]
    /\ turn_count = 0
    /\ retry_attempt = 0
    /\ current_config = NoConfig
    /\ function_responses_added = FALSE
    /\ json_config_attempted = FALSE
    /\ last_response = NoResponse
    /\ response = NoResponse
    /\ current_contents = <<>>
    /\ tool_logs = <<>>
    /\ errors = <<>>
    /\ result = NoResult
    /\ raised = "none"
    /\ calls = <<>>
    /\ client = [family |-> "varied", flakiness |-> 0]
    /\ varied = 0

\* the arguments: heart_rate and respiratory_rate are ints, lactate_level is a
\* float with one decimal, kept in tenths
SepsisInputs ==
    [heart_rate : {0, 9, 10, 72, 110, 200},
     blood_pressure : {90, 118},
     lactate_level : {0, 3, 10, 15, 33, 48, 67},
     respiratory_rate : {0, 4, 5, 14, 26}]

ToolInit ==
    /\ RunIdle
    /\ SessionInit
    /\ ContentsIdle
    /\ sepsis_args \in SepsisInputs
    /\ sepsis_result = NoValue
    /\ sepsis_again = NoValue
    /\ sepsis_other = NoCall

\* calculate_sepsis_risk(**sepsis_args)
CallSepsisRisk ==
    /\ sepsis_result = NoValue
    /\ sepsis_result' = calculate_sepsis_risk(sepsis_args)
    /\ UNCHANGED <<vars, app_vars, contents_vars, sepsis_args, sepsis_again, sepsis_other>>

\* the same call once more
CallSepsisRiskAgain ==
    /\ sepsis_result # NoValue
    /\ sepsis_again = NoValue
    /\ sepsis_again' = calculate_sepsis_risk(sepsis_args)
    /\ UNCHANGED <<vars, app_vars, contents_vars, sepsis_args, sepsis_result, sepsis_other>>

\* a call that differs from the first one in its blood_pressure only
CallSepsisRiskOtherPressure(blood_pressure) ==
    /\ sepsis_result # NoValue
    /\ sepsis_other = NoCall
    /\ blood_pressure # sepsis_args.blood_pressure
    /\ sepsis_other' =
           [args |-> [sepsis_args EXCEPT !.blood_pressure = blood_pressure],
            result |-> calculate_sepsis_risk(
                           [sepsis_args EXCEPT !.blood_pressure = blood_pressure])]
    /\ UNCHANGED <<vars, app_vars, contents_vars, sepsis_args, sepsis_result, sepsis_again>>

ToolNext ==
    \/ CallSepsisRisk
    \/ CallSepsisRiskAgain
    \/ \E blood_pressure \in {90, 118, 160} : CallSepsisRiskOtherPressure(blood_pressure)

all_vars == <<vars, other_vars>>

ToolSpec == ToolInit /\ [][ToolNext]_all_vars

\* floor(n / d) for n >= 0 and d > 0, by its defining inequalities
Floor(n, d) == CHOOSE q \in 0..n : d * q <= n /\ n < d * (q + 1)

\* floor(heart_rate/10) + floor(respiratory_rate/5) + floor(lactate_level*3),
\* the lactate level being in tenths
RiskScore(args) ==
    Floor(args.heart_rate, 10) + Floor(args.respiratory_rate, 5)
    + Floor(3 * args.lactate_level, 10)

SepsisExampleHigh ==
    [heart_rate |-> 110, blood_pressure |-> 90, lactate_level |-> 48,
     respiratory_rate |-> 26]
SepsisExampleLow ==
    [heart_rate |-> 72, blood_pressure |-> 118, lactate_level |-> 10,
     respiratory_rate |-> 14]

MaxRuns == 2
MaxImages == 1

\* a lab value that extract_data_from_image reports as None
NoneLab == "None"

\* what extract_data_from_image returns for an uploaded image: the labs and
\* the vitals it found
NoData == [labs |-> Absent, vitals |-> Absent]
LabsImage ==
    [labs |-> Present([WBC_count |-> "18.5", Creatinine |-> "1.4", Troponin |-> NoneLab]),
     vitals |-> Absent]
VitalsImage == [labs |-> Absent, vitals |-> Present(<<Measurement(0, 91, 118)>>)]
EmptyImage == [labs |-> Present(<<>>), vitals |-> Present(<<>>)]
ImageResults == {NoData, LabsImage, VitalsImage, EmptyImage}

\* bool(v) of an optional dict or list
TruthyOpt(o) == ~o.is_none /\ o.value # <<>>

\* "for key, value in extracted_labs.items(): if value is not None:
\*  st.session_state.patient_labs[key] = value"
StoreLabs(labs, extracted_labs) ==
    [k \in DOMAIN labs \cup {x \in DOMAIN extracted_labs : extracted_labs[x] # NoneLab} |->
        IF k \in DOMAIN extracted_labs /\ extracted_labs[k] # NoneLab
        THEN extracted_labs[k] ELSE labs[k]]

\* the session's labs and vitals after the loop over lab_vitals_images
RECURSIVE LabsAfter(_, _)
LabsAfter(labs, images) ==
    IF images = <<>> THEN labs
    ELSE LabsAfter(IF TruthyOpt(images[1].labs) THEN StoreLabs(labs, images[1].labs.value)
                   ELSE labs,
                   Tail(images))
RECURSIVE VitalsAfter(_, _)
VitalsAfter(vitals, images) ==
    IF images = <<>> THEN vitals
    ELSE VitalsAfter(IF TruthyOpt(images[1].vitals) THEN images[1].vitals.value ELSE vitals,
                     Tail(images))

\* `x if x else None`
OrNone(v) == IF v = <<>> THEN Absent ELSE Present(v)

\* the texts a model response may carry
Item(w, v) == [k |-> Key(w), v |-> v]
ListOf(w) == <<LBRACKET>> \o Q(w) \o <<RBRACKET>>
CompleteReport ==
    DictText(<<Item("triage_urgency", Q("RED")),
               Item("differential_diagnosis", ListOf("x")),
               Item("confidence_score", <<"1">>),
               Item("tool_verification_data", DictText(<<Item("risk_score", <<"12">>)>>))>>)
EmptyObject == <<LBRACE, RBRACE>>
BadConfidence ==
    DictText(<<Item("triage_urgency", Q("RED")), Item("confidence_score", None)>>)
LongReport ==
    DictText(<<Item("triage_urgency", Q("RED")), Item("evidence_summary", Q("long"))>>)
FastTexts == {CompleteReport, ModelChosenData, ValidReport, EmptyObject, BadConfidence,
              LongReport, FencedReport, JsonList, PlainProse, <<>>}

FallbackFull ==
    DictText(<<Item("differential_diagnosis", ListOf("y")),
               Item("triage_urgency", Q("GREEN")),
               Item("tool_verification_data", DictText(<<Item("risk_score", <<"30">>)>>))>>)
FallbackDiagnosis == DictText(<<Item("differential_diagnosis", ListOf("y"))>>)
FallbackNullData ==
    DictText(<<Item("differential_diagnosis", ListOf("y")),
               Item("tool_verification_data", None)>>)
FallbackListData ==
    DictText(<<Item("tool_verification_data", ListOf("x"))>>)
FallbackTexts == {FallbackFull, FallbackDiagnosis, FallbackNullData, FallbackListData,
                  EmptyObject, FencedReport, JsonList, PlainProse, <<>>}

\* what client.models.generate_content does: it raises, or returns a text
CallRaised == [raised |-> TRUE, text |-> <<>>]
Responded(t) == [raised |-> FALSE, text |-> t]
Outcomes(texts) == {CallRaised} \cup {Responded(t) : t \in texts}

\* the parse of an outcome: the except branch of both functions catches a
\* raised call like a failed parse
ParseOutcome(outcome) ==
    IF outcome.raised THEN ParseFailed ELSE ParseGenerated(outcome.text)

\* the generate_content calls as the run records them
FastCall ==
    [by |-> "_generate_report_fast", tools |-> FALSE,
     response_mime_type |-> "application/json", response_schema |-> TRUE,
     submitted |-> <<>>, labs |-> passed.labs, vitals |-> passed.vitals]
FallbackCall(raw_response_text) ==
    [by |-> "_extract_outputs_with_gemini", tools |-> FALSE,
     response_mime_type |-> "application/json", response_schema |-> FALSE,
     submitted |-> SubmittedText(raw_response_text),
     labs |-> OrNone(patient_labs), vitals |-> OrNone(patient_vitals)]

AppInit ==
    /\ RunIdle
    /\ ToolIdle
    /\ SessionInit
    /\ ContentsIdle

\* the end of a run that announces a report whatever the session holds
DisplayGenerated(r) ==
    /\ app_pc' = "idle"
    /\ chat_message' = "Diagnostic report generated successfully."

\* the end of a run: the visualization is read from the report and the
\* assistant's message is appended to chat_history
Display(r) ==
    IF VisualizationRaises(r)
    THEN /\ app_pc' = "raised"
         /\ UNCHANGED chat_message
    ELSE /\ app_pc' = "idle"
         /\ chat_message' = IF TruthyReport(r) THEN "Diagnostic report generated successfully."
                            ELSE "I was unable to generate a diagnostic report."

\* the patient notes of a click: empty, or some text
NotesInputs == {"", "Chest pain and fever"}

\* a refused click that also clears the session's report
RunRejectedResetting(api_key_present, notes) ==
    /\ app_pc \in {"idle", "raised"}
    /\ ~api_key_present \/ notes = ""
    /\ shown_error' = IF ~api_key_present THEN "Cannot run triage without GEMINI_API_KEY configured."
                       ELSE "Please enter patient notes to provide sufficient clinical context."
    /\ diagnostic_report' = NoneReport
    /\ UNCHANGED <<vars, tool_vars, contents_vars, app_pc, runs, patient_labs, patient_vitals,
                   chat_message, uploaded, passed, raw_json_response, model_calls,
                   fallback_calls, fallback_results, session_tool_logs, chat_notes>>

\* "Run Triage Agent" clicked without an API key or without notes: main
\* shows an error and does nothing else
RunRejected(api_key_present, notes) ==
    /\ app_pc \in {"idle", "raised"}
    /\ ~api_key_present \/ notes = ""
    /\ shown_error' = IF ~api_key_present THEN "Cannot run triage without GEMINI_API_KEY configured."
                       ELSE "Please enter patient notes to provide sufficient clinical context."
    /\ UNCHANGED <<vars, tool_vars, contents_vars, app_pc, runs, patient_labs, patient_vitals,
                   diagnostic_report, chat_message, uploaded, passed, raw_json_response,
                   model_calls, fallback_calls, fallback_results, session_tool_logs,
                   chat_notes>>

\* "Run Triage Agent" clicked with an API key and notes: the uploaded images
\* are read, the session's labs and vitals updated, the run's state reset
\* and the fast path called
RunClicked(notes, images) ==
    /\ app_pc \in {"idle", "raised"}
    /\ runs < MaxRuns
    /\ notes # ""
    /\ shown_error' = "none"
    /\ session_tool_logs' = <<>>
    /\ chat_notes' = notes
    /\ runs' = runs + 1
    /\ uploaded' = images
    /\ patient_labs' = LabsAfter(patient_labs, images)
    /\ patient_vitals' = VitalsAfter(patient_vitals, images)
    /\ diagnostic_report' = NoneReport
    /\ raw_json_response' = NoText
    /\ chat_message' = "none"
    /\ passed' = [labs |-> OrNone(patient_labs'), vitals |-> OrNone(patient_vitals')]
    /\ model_calls' = <<>>
    /\ fallback_calls' = 0
    /\ fallback_results' = NoneReport
    /\ app_pc' = "fast"
    /\ UNCHANGED <<vars, tool_vars, contents_vars>>

\* the report main stores after the fast path: the report, or the parse of
\* the raw text when the report is falsy
StoredReport(pg) ==
    IF TruthyReport(pg.report) THEN pg.report
    ELSE IF ~pg.failed THEN DictReport(EmptyDict)
    ELSE NoneReport

\* main after _generate_report_fast returned: pg is the parse of the model's
\* response and issued the generate_content calls so far
AfterFast(pg, issued) ==
    IF ConfidenceRaises(pg.report)
    THEN /\ app_pc' = "raised"
         /\ model_calls' = issued
         /\ UNCHANGED <<diagnostic_report, raw_json_response, chat_message,
                        fallback_calls, fallback_results, session_tool_logs>>
    ELSE /\ raw_json_response' = pg.json_text
         /\ session_tool_logs' = <<>>
         /\ diagnostic_report' = StoredReport(pg)
         /\ fallback_results' = NoneReport
         /\ IF NeedsFallback(StoredReport(pg))
            THEN /\ fallback_calls' = (IF pg.failed THEN 1 ELSE 0) + 1
                 /\ IF pg.failed
                    THEN /\ model_calls' = issued
                         /\ Display(StoredReport(pg))
                    ELSE /\ model_calls' = Append(issued, FallbackCall(pg.json_text))
                         /\ app_pc' = "fallback"
                         /\ UNCHANGED chat_message
            ELSE /\ fallback_calls' = 0
                 /\ model_calls' = issued
                 /\ Display(StoredReport(pg))

\* _generate_report_fast: one generate_content call with the report schema;
\* its response is parsed, and main goes on to the fallback decision
GenerateReportFast(outcome) ==
    /\ app_pc = "fast"
    /\ AfterFast(ParseOutcome(outcome), Append(model_calls, FastCall))
    /\ UNCHANGED <<vars, tool_vars, contents_vars, runs, patient_labs, patient_vitals, uploaded, passed,
                   chat_notes, shown_error>>

\* the response to the call of _extract_outputs_with_gemini arrives: it is
\* parsed, merged into the session's report and the run ends
ExtractOutputs(outcome) ==
    /\ app_pc = "fallback"
    /\ fallback_results' = ParseOutcome(outcome).report
    /\ IF TruthyReport(fallback_results')
       THEN IF MergeRaises(OrEmptyReport(diagnostic_report), fallback_results'.items)
            THEN /\ diagnostic_report' = DictReport(OrEmptyReport(diagnostic_report))
                 /\ app_pc' = "raised"
                 /\ UNCHANGED chat_message
            ELSE /\ diagnostic_report' =
                        DictReport(MergeInto(OrEmptyReport(diagnostic_report),
                                             fallback_results'.items))
                 /\ Display(diagnostic_report')
       ELSE /\ UNCHANGED diagnostic_report
            /\ Display(diagnostic_report)
    /\ UNCHANGED <<vars, tool_vars, contents_vars, runs, patient_labs, patient_vitals, uploaded, passed,
                   raw_json_response, model_calls, fallback_calls, session_tool_logs,
                   chat_notes, shown_error>>

ImageSeqs == UNION {[1..n -> ImageResults] : n \in 0..MaxImages}

AppNext ==
    \/ \E notes \in NotesInputs, images \in ImageSeqs : RunClicked(notes, images)
    \/ \E api_key_present \in BOOLEAN, notes \in NotesInputs : RunRejected(api_key_present, notes)
    \/ \E outcome \in Outcomes(FastTexts) : GenerateReportFast(outcome)
    \/ \E outcome \in Outcomes(FallbackTexts) : ExtractOutputs(outcome)

AppSpec == AppInit /\ [][AppNext]_all_vars

\* ------------------------------------------------------------------------
\* Properties of the application
\* ------------------------------------------------------------------------
\* the step of ExtractOutputs that merges the fallback results
Merges ==
    /\ app_pc = "fallback"
    /\ TruthyReport(fallback_results')
    /\ app_pc' # "raised"

\* every truthy value of before is the value of after, and so is every
\* sub-key of a tool_verification_data that is a dict
KeepsTruthy(before, after) ==
    \A k \in DOMAIN before :
        Truthy(before[k]) =>
            /\ k \in DOMAIN after
            /\ IF k = TVD /\ IsDict(before[k])
               THEN /\ IsDict(after[k])
                    /\ \A sk \in DOMAIN Items(before[k]) :
                           /\ sk \in DOMAIN Items(after[k])
                           /\ Items(after[k])[sk] = Items(before[k])[sk]
               ELSE after[k] = before[k]

\* C23: when fallback results are merged into the report, every truthy
\* top-level value of the report, and every sub-key of its
\* tool_verification_data, is after the merge what it was before it
C23_MergeOnlyFills ==
    [][Merges => KeepsTruthy(diagnostic_report.items, diagnostic_report'.items)]_all_vars

\* the fast path reported RED with a risk score of 12, and after the merge
\* the session's report says GREEN with a risk score of 30
C23_ValuesOverwritten ==
    /\ app_pc = "idle"
    /\ raw_json_response = ModelChosenData
    /\ TruthyReport(fallback_results)
    /\ diagnostic_report.items[Key("triage_urgency")] = Q("GREEN")
    /\ Items(diagnostic_report.items[TVD])[Key("risk_score")] = <<"30">>

\* C24: after fallback results have been merged into the report, merging
\* the same results again changes no field of the report
C24_MergeIdempotent ==
    [][Merges =>
          /\ ~MergeRaises(diagnostic_report'.items, fallback_results'.items)
          /\ MergeInto(diagnostic_report'.items, fallback_results'.items)
             = diagnostic_report'.items]_all_vars

\* the merge stored the fallback's null tool_verification_data in a report
\* that had none, and a second merge of the same results would store {}
C24_NullDataBecomesEmpty ==
    /\ app_pc = "idle"
    /\ TruthyReport(fallback_results)
    /\ Has(diagnostic_report.items, TVD)
    /\ diagnostic_report.items[TVD] = None
    /\ MergeInto(diagnostic_report.items, fallback_results.items)[TVD] = EmptyObject

\* the report is absent, or its differential_diagnosis is missing or empty,
\* or its tool_verification_data holds no risk score under a recognized key
DifferentialDiagnosisMissing(r) ==
    \/ ~Has(r.items, Key("differential_diagnosis"))
    \/ r.items[Key("differential_diagnosis")] \in {None, <<LBRACKET, RBRACKET>>, <<QUOTE, QUOTE>>}
RiskScoreMissing(r) ==
    \/ ~Has(r.items, TVD)
    \/ ~IsDict(r.items[TVD])
    \/ \A k \in {Key("sepsis_risk"), Key("risk_score"), Key("calculate_sepsis_risk")} :
           \/ ~Has(Items(r.items[TVD]), k)
           \/ Items(r.items[TVD])[k] = None
Incomplete(r) ==
    \/ r.is_none
    \/ r.items = EmptyDict
    \/ DifferentialDiagnosisMissing(r)
    \/ RiskScoreMissing(r)

\* main got past the call of _generate_report_fast and its log lines, to
\* the lines that store the report and decide on the fallback
ReachesDecision == app_pc = "fast" /\ ~(app_pc' = "raised" /\ raw_json_response' = NoText)

FallbackModelCalls == SelectSeq(model_calls, LAMBDA c : c.by = "_extract_outputs_with_gemini")

\* C26: every invocation of _extract_outputs_with_gemini, also one without
\* raw text, issues exactly one generate_content call, in JSON mode and
\* without tools
C26_OneCallPerInvocation ==
    /\ Len(FallbackModelCalls) = fallback_calls
    /\ \A n \in 1..Len(FallbackModelCalls) :
           /\ ~FallbackModelCalls[n].tools
           /\ FallbackModelCalls[n].response_mime_type = "application/json"

\* the fast path failed, _extract_outputs_with_gemini was invoked twice
\* without raw text, and the run ended with the fast path's call as its only
\* generate_content call
C26_InvokedWithoutCall ==
    /\ app_pc = "idle"
    /\ raw_json_response = NoText
    /\ fallback_calls = 2
    /\ Len(model_calls) = 1
    /\ FallbackModelCalls = <<>>

\* the step in which _extract_outputs_with_gemini returns, with or without
\* a model call, and main ends the run
FallbackReturns ==
    \/ app_pc = "fallback" /\ app_pc' # "fallback"
    \/ app_pc = "fast" /\ fallback_calls' > 0 /\ app_pc' # "fallback"

\* C27: when _extract_outputs_with_gemini returns no result, the session's
\* report stays what it was before the call: without a report the run says
\* that none was generated, and a partial report is the one displayed
C27_FailedFallbackKeepsReport ==
    [][FallbackReturns /\ ~TruthyReport(fallback_results') =>
          /\ diagnostic_report' = diagnostic_report
          /\ app_pc' = "idle"
          /\ chat_message' = IF TruthyReport(diagnostic_report)
                             THEN "Diagnostic report generated successfully."
                             ELSE "I was unable to generate a diagnostic report."]_all_vars

\* the fallback failed on a partial report, which is still the session's
\* report at the end of the run
C27_PartialReportKept ==
    /\ app_pc = "idle"
    /\ Len(FallbackModelCalls) = 1
    /\ fallback_results = NoneReport
    /\ raw_json_response = ModelChosenData
    /\ diagnostic_report = ParseSlice(ModelChosenData).report
    /\ chat_message = "Diagnostic report generated successfully."

\* no report and no result of the fallback: the run says so
C27_AbsentStaysAbsent ==
    /\ app_pc = "idle"
    /\ fallback_calls > 0
    /\ ~TruthyReport(diagnostic_report)
    /\ chat_message = "I was unable to generate a diagnostic report."

\* C28: what _extract_outputs_with_gemini returns from its model call is
\* None or a dict with a triage_urgency
C28_FallbackReturnsReportOrNone ==
    [][app_pc = "fallback" =>
          \/ fallback_results'.is_none
          \/ Has(fallback_results'.items, Key("triage_urgency"))]_all_vars

\* a dict without triage_urgency was returned and merged into the report
C28_ReturnedWithoutUrgency ==
    /\ app_pc = "idle"
    /\ Len(FallbackModelCalls) = 1
    /\ fallback_results = ParseSlice(FallbackDiagnosis).report
    /\ ~Has(fallback_results.items, Key("triage_urgency"))
    /\ Has(diagnostic_report.items, Key("differential_diagnosis"))
    /\ ~Has(diagnostic_report.items, Key("triage_urgency"))

\* the pieces of a submitted text that come from the raw text
OriginalPieces(submitted) == {n \in 1..Len(submitted) : submitted[n].orig}

\* the submitted text is no longer than the threshold and holds the first
\* and the last character of a raw text of n characters
KeepsHeadAndTail(submitted, n) ==
    /\ PiecesLen(submitted) <= TRUNCATE_OVER
    /\ \E i \in OriginalPieces(submitted) : submitted[i].from = 1
    /\ \E i \in OriginalPieces(submitted) : submitted[i].to = n

\* C29: of a raw text longer than the truncation threshold,
\* _extract_outputs_with_gemini submits a text of bounded length that holds
\* the head and the tail of the raw text
C29_TruncationKeepsHeadAndTail ==
    \A n \in 1..Len(FallbackModelCalls) :
        CharLen(raw_json_response) > TRUNCATE_OVER =>
            KeepsHeadAndTail(FallbackModelCalls[n].submitted, CharLen(raw_json_response))

\* of an overlong report the prompt holds PROMPT_KEEP characters, none of
\* them from the tail of the raw text
C29_TailDropped ==
    /\ app_pc = "fallback"
    /\ raw_json_response = LongReport
    /\ CharLen(raw_json_response) > TRUNCATE_OVER
    /\ PiecesLen(FallbackModelCalls[1].submitted) = PROMPT_KEEP
    /\ \A i \in OriginalPieces(FallbackModelCalls[1].submitted) :
           FallbackModelCalls[1].submitted[i].to < PORTION_KEEP

\* the labs and vitals that the images of a run yield by themselves
ExtractedFrom(images) ==
    [labs |-> OrNone(LabsAfter(<<>>, images)), vitals |-> OrNone(VitalsAfter(<<>>, images))]

\* C30: the labs and vitals passed to report generation in a run are those
\* extracted from the images of that run, and None when nothing was
\* extracted
C30_OnlyThisRunsData == runs > 0 => passed = ExtractedFrom(uploaded)

\* a second run without images is given the default labs and the vitals
\* that an image of the first run yielded
C30_DefaultsAndLeftovers ==
    /\ runs = 2
    /\ uploaded = <<>>
    /\ Len(model_calls) > 0
    /\ model_calls[1].labs = Present(DEFAULT_LABS_JSON)
    /\ model_calls[1].vitals = VitalsImage.vitals

\* ------------------------------------------------------------------------
\* build_patient_contents (src/utils.py) on its own: the parts of turn 0 for
\* every combination of its arguments.  A text argument is "none" (None),
\* "empty", "blank" (whitespace only) or a tag for what it says.
\* ------------------------------------------------------------------------
TruthyText(t) == t \notin {"none", "empty"}

\* vitals without a HeartRate, and a single measurement
VitalsNoHeartRate == <<[time |-> 0, SpO2 |-> 98], [time |-> 1, SpO2 |-> 91]>>
VitalsSingle == <<Measurement(0, 91, 118)>>

ContentsInputs ==
    [notes : {"empty", "notes"},
     image_base64 : {"none", "data"},
     image_mime : {"none", "image/png"},
     labs : {Absent, Present(<<>>), Present([Lactate_level |-> "0", Troponin |-> NoneLab]),
             Present(DEFAULT_LABS_JSON), Present([WBC_count |-> "18.5"])},
     vitals : {Absent, Present(<<>>), Present(VitalsSingle),
               Present(DEFAULT_VITALS_TIMESERIES_JSON), Present(VitalsNoHeartRate)},
     image_analysis : {"none", "empty", "blank", "plain", "mentions vitals"},
     lab_analysis : {"text", "empty", "raises"}]

\* preprocess_tabular_data: the sentinel, the analysis that the model
\* returned, or the listing of the values when it returned none or raised
ValidLabs(labs) == {k \in DOMAIN labs : labs[k] \notin {NoneLab, "0", ""}}
preprocess_tabular_data(labs_json, lab_analysis) ==
    IF ~TruthyOpt(labs_json) \/ ValidLabs(labs_json.value) = {}
    THEN "Tabular Data Feature: No lab data available."
    ELSE IF lab_analysis = "text" THEN "Tabular Data Feature: analysis"
    ELSE "Tabular Data Feature: Lab values extracted from image"

\* preprocess_timeseries_data
HasField(v, f) == f \in DOMAIN v
ValidVitals(vitals) == SelectSeq(vitals, LAMBDA v : HasField(v, "SpO2") \/ HasField(v, "HeartRate"))
preprocess_timeseries_data(vitals_list) ==
    IF ~TruthyOpt(vitals_list) \/ Len(vitals_list.value) < 2
    THEN "Time-Series Feature: Insufficient vitals data for trend analysis."
    ELSE IF Len(ValidVitals(vitals_list.value)) < 2
    THEN "Time-Series Feature: Insufficient valid vitals data for trend analysis."
    ELSE IF \A f \in {"SpO2", "HeartRate"} :
                /\ HasField(ValidVitals(vitals_list.value)[1], f)
                /\ HasField(ValidVitals(vitals_list.value)[Len(ValidVitals(vitals_list.value))], f)
    THEN "Time-Series Feature: Vitals trend shows a progressive deterioration"
    ELSE "Time-Series Feature: Vitals trend (partial)"

\* the instruction block
RECURSIVE SumHeartRate(_)
SumHeartRate(hr) == IF hr = <<>> THEN 0 ELSE hr[1].HeartRate + SumHeartRate(Tail(hr))
HeartRates(vitals) == SelectSeq(vitals, LAMBDA v : HasField(v, "HeartRate"))
LactateKeys == <<"Lactate_level", "Lactate", "LAC", "Lactic_Acid", "lactate", "lac">>
FoundLactate(labs) ==
    {n \in 1..Len(LactateKeys) :
        LactateKeys[n] \in DOMAIN labs /\ labs[LactateKeys[n]] \notin {NoneLab, "0", ""}}
Min(S) == CHOOSE n \in S : \A m \in S : n <= m

has_vitals(args) == TruthyOpt(args.vitals) /\ Len(args.vitals.value) >= 2
has_labs(args) == TruthyOpt(args.labs) /\ ValidLabs(args.labs.value) # {}
has_image_analysis(args) == args.image_analysis \in {"plain", "mentions vitals"}

HeartRateLine(args) ==
    IF has_vitals(args) /\ HeartRates(args.vitals.value) # <<>>
    THEN <<"heart_rate", "from vitals",
           ToString(SumHeartRate(HeartRates(args.vitals.value))
                    \div Len(HeartRates(args.vitals.value)))>>
    ELSE <<"heart_rate", "default">>
LactateLine(args) ==
    IF TruthyOpt(args.labs) /\ FoundLactate(args.labs.value) # {}
    THEN <<"lactate_level", "from labs",
           args.labs.value[LactateKeys[Min(FoundLactate(args.labs.value))]]>>
    ELSE <<"lactate_level", "default">>
VisualizationLines(args) ==
    IF has_vitals(args)
    THEN <<<<"2. You MUST call generate_vitals_visualization", "time_series_data",
             ToString(Len(args.vitals.value))>>>>
    ELSE IF has_image_analysis(args) /\ args.image_analysis = "mentions vitals"
    THEN <<<<"2. You MUST call generate_vitals_visualization if you can extract vitals">>>>
    ELSE <<>>
InstructionText(args) ==
    IF has_vitals(args) \/ has_labs(args) \/ has_image_analysis(args)
    THEN <<<<"CRITICAL TOOL CALLING REQUIREMENTS:">>,
           <<"1. You MUST call calculate_sepsis_risk">>,
           HeartRateLine(args), <<"blood_pressure">>, LactateLine(args),
           <<"respiratory_rate">>>>
         \o VisualizationLines(args)
         \o <<<<"3. After calling the tools">>, <<"4. Include tool results">>>>
    ELSE <<<<"You have limited data.">>>>

\* the parts, in the order of the appends
ImagePart == [kind |-> "image", text |-> "", lines |-> <<>>]
TextPart(kind, text) == [kind |-> kind, text |-> text, lines |-> <<>>]
\* the parts with the notes appended before the image
PatientContentsNotesFirst(args) ==
    <<TextPart("notes", args.notes)>>
    \o (IF args.image_base64 # "none" /\ args.image_mime # "none" THEN <<ImagePart>> ELSE <<>>)
    \o (IF TruthyText(args.image_analysis)
        THEN <<TextPart("image_analysis", args.image_analysis)>> ELSE <<>>)
    \o <<TextPart("labs", preprocess_tabular_data(args.labs, args.lab_analysis)),
         TextPart("vitals", preprocess_timeseries_data(args.vitals)),
         [kind |-> "instruction", text |-> "", lines |-> InstructionText(args)]>>

PatientContents(args) ==
    (IF args.image_base64 # "none" /\ args.image_mime # "none" THEN <<ImagePart>> ELSE <<>>)
    \o <<TextPart("notes", args.notes)>>
    \o (IF TruthyText(args.image_analysis)
        THEN <<TextPart("image_analysis", args.image_analysis)>> ELSE <<>>)
    \o <<TextPart("labs",
                  IF TruthyOpt(args.labs)
                  THEN preprocess_tabular_data(args.labs, args.lab_analysis)
                  ELSE "Tabular Data Feature: No lab data available.")>>
    \o <<TextPart("vitals",
                  IF TruthyOpt(args.vitals) THEN preprocess_timeseries_data(args.vitals)
                  ELSE "Time-Series Feature: No vitals data available.")>>
    \o <<[kind |-> "instruction", text |-> "", lines |-> InstructionText(args)]>>

ContentsInit ==
    /\ RunIdle
    /\ ToolIdle
    /\ SessionInit
    /\ contents_args \in ContentsInputs
    /\ contents = <<>>

\* build_patient_contents is called with the arguments
BuildPatientContents ==
    /\ contents = <<>>
    /\ contents' = PatientContents(contents_args)
    /\ UNCHANGED <<vars, tool_vars, app_vars, contents_args>>

ContentsNext == BuildPatientContents

ContentsSpec == ContentsInit /\ [][ContentsNext]_all_vars

\* the kinds of the parts of a call
Kinds(parts) == [n \in 1..Len(parts) |-> parts[n].kind]

\* an image is given with its MIME type; an image-analysis text is given
ImagePresent(args) == args.image_base64 = "data" /\ args.image_mime = "image/png"
AnalysisPresent(args) == args.image_analysis \in {"blank", "plain", "mentions vitals"}

\* C31: for every combination of the optional inputs build_patient_contents
\* returns the image part first if and only if an image is present, then
\* the notes, then the image-analysis text if present, then one labs part,
\* one vitals part and one instruction block as the last part
C31_PartsInFixedOrder ==
    contents # <<>> =>
        /\ Kinds(contents) =
               (IF ImagePresent(contents_args) THEN <<"image">> ELSE <<>>)
               \o <<"notes">>
               \o (IF AnalysisPresent(contents_args) THEN <<"image_analysis">> ELSE <<>>)
               \o <<"labs", "vitals", "instruction">>
        /\ contents[Len(contents)].lines # <<>>
        /\ \A n \in 1..Len(contents) :
               /\ contents[n].kind = "labs" =>
                      contents[n].text \in {"Tabular Data Feature: No lab data available.",
                                            "Tabular Data Feature: analysis",
                                            "Tabular Data Feature: Lab values extracted from image"}
               /\ contents[n].kind = "vitals" =>
                      (contents[n].text = "Time-Series Feature: No vitals data available.")
                      <=> ~TruthyOpt(contents_args.vitals)

\* a call with an image, an image analysis, labs and vitals returned its six
\* parts
C31_AllPartsReturned ==
    /\ ImagePresent(contents_args)
    /\ AnalysisPresent(contents_args)
    /\ TruthyOpt(contents_args.labs)
    /\ TruthyOpt(contents_args.vitals)
    /\ Len(contents) = 6
    /\ contents[1].kind = "image"

\* ------------------------------------------------------------------------
\* Properties of the turn configuration, the errors and the tool log
\* ------------------------------------------------------------------------
\* the positions of the contents of the given kind in the history
ContentsOfKind(kind) == {n \in 1..Len(current_contents) : current_contents[n].kind = kind}

C32_ToolsAfterInstruction ==
    /\ pc = "respond"
    /\ calls # <<>>
    /\ calls[Len(calls)].turn = 1
    /\ calls[Len(calls)].config = config_tool_turn
    /\ AfterJsonInstruction(Len(calls))

\* C33: at every return of run_triage_agent errors has at most one entry:
\* none next to a report returned from inside the turn loop, exactly one
\* next to an absent report
C33_AtMostOneError ==
    pc = "done" =>
        /\ Len(errors) <= 1
        /\ result.report # NoReport /\ turn_count < MAX_TURNS => errors = <<>>
        /\ result.report = NoReport => Len(errors) = 1

\* a return after the loop with the report of the last response and the
\* warning as the only error
C33_ReportWithWarning ==
    /\ pc = "done"
    /\ turn_count = MAX_TURNS
    /\ result.report # NoReport
    /\ Len(errors) = 1
    /\ errors[1].kind = "warning_partial"

\* the [ACTION] entries of a log, and the [OBSERVATION] and [ERROR] entries
\* that execute_function_call wrote
ActionEntries(logs) == {n \in 1..Len(logs) : logs[n].tag = "ACTION"}
AnswerEntries(logs) ==
    {n \in 1..Len(logs) :
        /\ logs[n].tag \in {"OBSERVATION", "ERROR"}
        /\ logs[n].kind \in {"executed", "failed", "not_found"}}

\* every [ACTION] entry is directly followed by the one entry that answers
\* it
Answered(logs) ==
    /\ \A n \in ActionEntries(logs) :
           /\ n + 1 \in AnswerEntries(logs)
           /\ logs[n + 1].fn = logs[n].fn
    /\ \A n \in AnswerEntries(logs) : n - 1 \in ActionEntries(logs)

\* C34: in the tool log of a run every [ACTION] entry is directly followed
\* by exactly one [OBSERVATION] or [ERROR] entry of the same function, and
\* every step adds as many [ACTION] entries as the response it handles
\* holds tool-call requests, so that their number is the number of requests
\* received
C34_EveryActionAnswered ==
    [][/\ Answered(tool_logs')
       /\ Cardinality(ActionEntries(tool_logs')) =
              Cardinality(ActionEntries(tool_logs))
              + (IF pc = "respond" THEN Len(FunctionCalls(response)) ELSE 0)]_all_vars

\* two requests of one response were logged, the second one answered by an
\* [ERROR] entry
C34_TwoRequestsAnswered ==
    /\ pc = "turn"
    /\ Len(FunctionCalls(response)) = 2
    /\ Cardinality(ActionEntries(tool_logs)) = 2
    /\ tool_logs[Len(tool_logs)].tag = "ERROR"
    /\ tool_logs[Len(tool_logs) - 1].tag = "ACTION"
    /\ tool_logs[Len(tool_logs) - 2].tag = "OBSERVATION"

\* None, or a text that json.loads accepts
NoneOrParses(r) == r = NoText \/ JsonLoads(r).ok

\* a text that is empty or blank, or holds no "{"
NothingToRepair(t) == t = <<>> \/ Strip(t) = <<>> \/ Find(t, LBRACE) = 0

\* C35: _repair_json and _repair_json_aggressive each return None or a text
\* that parses as JSON, and None for a text that is empty or holds no "{"
C35_RepairsReturnNoneOrJson ==
    pc = "respond" =>
        /\ NoneOrParses(RepairJson(response.text))
        /\ NoneOrParses(RepairJsonAggressive(response.text))
        /\ NothingToRepair(response.text) =>
               /\ RepairJson(response.text) = NoText
               /\ RepairJsonAggressive(response.text) = NoText

\* a text that does not parse is repaired by _repair_json into one that does
C35_RepairedTextParses ==
    /\ pc = "respond"
    /\ ~JsonLoads(response.text).ok
    /\ RepairJson(response.text) # NoText
    /\ JsonLoads(RepairJson(response.text)).ok

\* a text that does not parse is repaired by _repair_json_aggressive
C35_AggressiveRepairParses ==
    /\ pc = "respond"
    /\ ~JsonLoads(response.text).ok
    /\ RepairJsonAggressive(response.text) # NoText
    /\ JsonLoads(RepairJsonAggressive(response.text)).ok

\* C36: two calls of calculate_sepsis_risk that differ only in
\* blood_pressure return the same risk_score and score_category
C36_BloodPressureIgnored ==
    sepsis_other # NoCall =>
        /\ sepsis_other.args.blood_pressure # sepsis_args.blood_pressure
        /\ [sepsis_other.args EXCEPT !.blood_pressure = sepsis_args.blood_pressure] = sepsis_args
        /\ sepsis_other.result.risk_score = sepsis_result.risk_score
        /\ sepsis_other.result.score_category = sepsis_result.score_category

\* a call with a systolic pressure of 90 and one with 160 both scored 20,
\* High Risk
C36_SameScoreAtThreshold ==
    /\ sepsis_args.blood_pressure = 90
    /\ sepsis_other # NoCall
    /\ sepsis_other.args.blood_pressure = 160
    /\ sepsis_result.risk_score = 20
    /\ sepsis_other.result.score_category = "High Risk"

\* the session's results of the last run
SessionResults ==
    <<diagnostic_report, session_tool_logs, raw_json_response, chat_message, chat_notes,
      patient_labs, patient_vitals>>

\* a click on "Run Triage Agent" that main answered with an error
ClickRefused == app_pc \in {"idle", "raised"} /\ shown_error' # "none"

\* a step of an accepted run: the click that starts it, or one of its calls
AcceptedRun ==
    \/ /\ app_pc \in {"idle", "raised"}
       /\ runs' = runs + 1
       /\ shown_error' = "none"
       /\ diagnostic_report' = NoneReport
       /\ session_tool_logs' = <<>>
       /\ raw_json_response' = NoText
       /\ chat_message' = "none"
       /\ chat_notes' # "none"
    \/ app_pc \in {"fast", "fallback"}

\* C37: a click on "Run Triage Agent" without an API key or without patient
\* notes issues no model call and leaves the diagnostic report, the tool
\* logs, the raw response, the chat history, the labs and the vitals as they
\* were; a step that changes any of them belongs to an accepted run
C37_RefusedClickKeepsResults ==
    [][/\ ClickRefused =>
            /\ SessionResults' = SessionResults
            /\ model_calls' = model_calls
            /\ fallback_calls' = fallback_calls
            /\ app_pc' = app_pc
            /\ runs' = runs
       /\ SessionResults' # SessionResults => AcceptedRun]_all_vars

\* a click was refused after a run that left a report, which is still there
C37_RefusedAfterReport ==
    /\ shown_error # "none"
    /\ runs = 1
    /\ app_pc = "idle"
    /\ TruthyReport(diagnostic_report)
    /\ chat_message = "Diagnostic report generated successfully."
    /\ chat_notes # "none"
    /\ model_calls # <<>>

====
